---- MODULE Spec2Model ----
(***************************************************************************)
(* The natural-language-to-SQL query engine of the messaging gateway       *)
(* (wpp/config/sqlAgent.js): the SELECT-only guard of executeQuery, the    *)
(* fast-path decision list of queryFromNaturalLanguage, SQL synthesis      *)
(* through the text-generation backend, and the statements that reach the  *)
(* connection pool.                                                        *)
(*                                                                         *)
(* A JavaScript string is modelled as a sequence of one-character strings, *)
(* so that trim, toUpperCase, startsWith and the regular expressions of    *)
(* the source are computed character by character.                         *)
(***************************************************************************)
EXTENDS Integers, Sequences, FiniteSets, TLC

(***************************************************************************)
(* Characters and the string primitives of the JavaScript runtime.         *)
(***************************************************************************)
LowerLetters == 
     <<"a","b","c","d","e","f","g","h","i","j","k","l","m","n","o","p","q","r","s","t","u","v","w",
       "x","y","z">>
UpperLetters == 
     <<"A","B","C","D","E","F","G","H","I","J","K","L","M","N","O","P","Q","R","S","T","U","V","W",
       "X","Y","Z">>
\* the character ` (a TLA+ string cannot hold it)
Backtick == "backtick"
DigitChars == {"0","1","2","3","4","5","6","7","8","9"}
LowerSet == {LowerLetters[i] : i \in 1..Len(LowerLetters)}
UpperSet == {UpperLetters[i] : i \in 1..Len(UpperLetters)}
\* \w of a regular expression
WordChars == LowerSet \cup UpperSet \cup DigitChars \cup {"_"}
\* \s of a regular expression (the whitespace String.prototype.trim removes)
SpaceChars == {" ", "\n", "\t", "\r"}
UpperOf == [c \in LowerSet |-> UpperLetters[CHOOSE i \in 1..Len(LowerLetters) : LowerLetters[i] = c]]
LowerOf == [c \in UpperSet |-> LowerLetters[CHOOSE i \in 1..Len(UpperLetters) : UpperLetters[i] = c]]

IsSpace(c) == c \in SpaceChars
IsWordChar(c) == c \in WordChars
IsDigit(c) == c \in DigitChars
IsAlnum(c) == c \in LowerSet \cup UpperSet \cup DigitChars

toUpperCase(s) == [i \in 1..Len(s) |-> IF s[i] \in LowerSet THEN UpperOf[s[i]] ELSE s[i]]
toLowerCase(s) == [i \in 1..Len(s) |-> IF s[i] \in UpperSet THEN LowerOf[s[i]] ELSE s[i]]

SetMin(S) == CHOOSE m \in S : \A n \in S : m <= n
SetMax(S) == CHOOSE m \in S : \A n \in S : n <= m

trim(s) ==
  IF \A i \in 1..Len(s) : IsSpace(s[i]) THEN << >>
  ELSE SubSeq(s,
              CHOOSE i \in 1..Len(s) : ~IsSpace(s[i]) /\ \A k \in 1..(i - 1) : IsSpace(s[k]),
              CHOOSE i \in 1..Len(s) : ~IsSpace(s[i]) /\ \A k \in (i + 1)..Len(s) : IsSpace(s[k]))

\* s has p at position i
MatchAt(s, i, p) ==
  /\ i >= 1
  /\ i + Len(p) - 1 <= Len(s)
  /\ \A j \in 1..Len(p) : s[i + j - 1] = p[j]

\* s has p at position i when case is ignored (the i flag); p is in lower case
LowerChar(c) == IF c \in UpperSet THEN LowerOf[c] ELSE c
MatchAtI(s, i, p) ==
  /\ i >= 1
  /\ i + Len(p) - 1 <= Len(s)
  /\ \A j \in 1..Len(p) : LowerChar(s[i + j - 1]) = p[j]

startsWith(s, p) == MatchAt(s, 1, p)
includes(s, p) == \E i \in 1..(Len(s) - Len(p) + 1) : MatchAt(s, i, p)

\* \b of a regular expression, at the gap in front of position i (1..Len(s)+1)
WordBoundary(s, i) ==
  LET before == i > 1 /\ IsWordChar(s[i - 1])
      after  == i <= Len(s) /\ IsWordChar(s[i])
  IN before # after

\* new RegExp(`\\b${w}\\b`).test(s), for a word w of \w characters
TestWholeWord(s, w) ==
  \E i \in 1..(Len(s) - Len(w) + 1) :
     MatchAt(s, i, w) /\ WordBoundary(s, i) /\ WordBoundary(s, i + Len(w))

\* Array.prototype.join over strings
RECURSIVE join(_, _)
join(parts, sep) ==
  IF parts = << >> THEN << >>
  ELSE IF Len(parts) = 1 THEN parts[1]
  ELSE parts[1] \o sep \o join(Tail(parts), sep)

\* JavaScript values that are not strings
undefined == [t |-> "undefined"]
null == [t |-> "null"]
JsString(s) == [t |-> "string", v |-> s]

(***************************************************************************)
(* executeQuery: the safety check (sqlAgent.js 77-88).                     *)
(***************************************************************************)
SELECT == <<"S","E","L","E","C","T">>
forbiddenKeywords ==
  << <<"I","N","S","E","R","T">>, <<"U","P","D","A","T","E">>, <<"D","E","L","E","T","E">>, <<"D","R","O","P">>, <<"C","R","E","A","T","E">>, <<"A","L","T","E","R">>, 
     <<"T","R","U","N","C","A","T","E">>,
     <<"R","E","P","L","A","C","E">>, <<"M","E","R","G","E">>, <<"C","A","L","L">>, <<"E","X","E","C">>, <<"G","R","A","N","T">>, <<"R","E","V","O","K","E">> >>

\* what the try block throws before the statement is handed to the pool
safetyCheck(sql) ==
  LET normalizedSQL == toUpperCase(trim(sql))
      hits == {k \in 1..Len(forbiddenKeywords) : TestWholeWord(normalizedSQL, forbiddenKeywords[k])}
  IN IF ~startsWith(normalizedSQL, SELECT)
       THEN [thrown |-> TRUE, message |-> 
     <<"O","n","l","y"," ","S","E","L","E","C","T"," ","q","u","e","r","i","e","s"," ","a","r","e",
       " ","a","l","l","o","w","e","d">>]
     ELSE IF hits # {}
       THEN [thrown |-> TRUE,
             message |-> 
     <<"Q","u","e","r","y"," ","c","o","n","t","a","i","n","s"," ","f","o","r","b","i","d","d","e",
       "n"," ","k","e","y","w","o","r","d",":"," ">> \o forbiddenKeywords[SetMin(hits)]]
     ELSE [thrown |-> FALSE, message |-> << >>]

(***************************************************************************)
(* The regular expressions of queryFromNaturalLanguage (sqlAgent.js        *)
(* 177-183, 266, 316, 322-323, 383-388), each computed on the characters.  *)
(***************************************************************************)
\* positions where the word w stands as a whole word (\bw\b), ignoring case
WholeWordAt(s, w) ==
  {i \in 1..(Len(s) - Len(w) + 1) :
     MatchAtI(s, i, w) /\ WordBoundary(s, i) /\ WordBoundary(s, i + Len(w))}

\* /a\s*b/i.test(s)
TestSpaced(s, a, b) ==
  \E i \in 1..Len(s) :
     /\ MatchAtI(s, i, a)
     /\ \E j \in (i + Len(a))..Len(s) :
          /\ MatchAtI(s, j, b)
          /\ \A k \in (i + Len(a))..(j - 1) : IsSpace(s[k])

\* /\b(w1|w2|..)\b.*\bv\b/i.test(s): '.' matches anything but a line terminator
TestThenOnLine(s, firsts, v) ==
  \E w \in firsts : \E i \in WholeWordAt(s, w) : \E j \in WholeWordAt(s, v) :
     /\ j >= i + Len(w)
     /\ \A k \in (i + Len(w))..(j - 1) : s[k] \notin {"\n", "\r"}

\* /\bv\b.*\b(w1|w2|..)\b/i.test(s)
TestOnLineThen(s, v, lasts) ==
  \E w \in lasts : \E i \in WholeWordAt(s, v) : \E j \in WholeWordAt(s, w) :
     /\ j >= i + Len(v)
     /\ \A k \in (i + Len(v))..(j - 1) : s[k] \notin {"\n", "\r"}

hasBlackBar(question) == TestSpaced(question, <<"b","l","a","c","k">>, <<"b","a","r">>)
hasBrightBar(question) == TestSpaced(question, <<"b","r","i","g","h","t">>, <<"b","a","r">>)
hasBoth(question) == hasBlackBar(question) /\ hasBrightBar(question)
TotalWords == {<<"t","o","t","a","l">>, <<"g","r","a","n","d">>, <<"a","l","l">>}
isGrandTotal(question) ==
  /\ ~hasBlackBar(question)
  /\ ~hasBrightBar(question)
  /\ \/ TestThenOnLine(question, TotalWords, <<"s","t","o","c","k">>)
     \/ TestOnLineThen(question, <<"s","t","o","c","k">>, TotalWords)

\* end of the run of digits that starts at position i (i - 1 if there is none)
RECURSIVE DigitsEnd(_, _)
DigitsEnd(s, i) == IF i <= Len(s) /\ IsDigit(s[i]) THEN DigitsEnd(s, i + 1) ELSE i - 1

IsPPSeparator(c) == c = "-" \/ IsSpace(c)

\* /\b(PP[-\s]\d{4}[-\s]\d+)\b/i matches at position i; \d+ is greedy and no shorter
\* run of digits ends at a word boundary
PPMatchesAt(s, i) ==
  /\ i + 8 <= Len(s)
  /\ WordBoundary(s, i)
  /\ MatchAtI(s, i, <<"p","p">>)
  /\ IsPPSeparator(s[i + 2])
  /\ \A k \in (i + 3)..(i + 6) : IsDigit(s[k])
  /\ IsPPSeparator(s[i + 7])
  /\ IsDigit(s[i + 8])
  /\ WordBoundary(s, DigitsEnd(s, i + 8) + 1)

\* userQuestion.match(...): null, or the text of the leftmost match
ppnoMatch(question) ==
  IF \A i \in 1..Len(question) : ~PPMatchesAt(question, i) THEN null
  ELSE LET first == CHOOSE i \in 1..Len(question) :
                      PPMatchesAt(question, i) /\ \A k \in 1..(i - 1) : ~PPMatchesAt(question, k)
       IN JsString(SubSeq(question, first, DigitsEnd(question, first + 8)))

\* a variant that leaves the separators as they were written
ppnoOfUpperCaseOnly(matched) == toUpperCase(matched)
\* ppnoMatch[1].replace(/\s/g, '-').toUpperCase()
ppnoOf(matched) == toUpperCase([i \in 1..Len(matched) |-> IF IsSpace(matched[i]) THEN "-" ELSE matched[i]])
\* `%${ppno.replace(/^PP[-\s]/i, '')}%`
ppnoLikeOf(ppno) ==
  <<"%">> \o (IF Len(ppno) >= 3 /\ MatchAtI(ppno, 1, <<"p","p">>) /\ IsPPSeparator(ppno[3])
               THEN SubSeq(ppno, 4, Len(ppno)) ELSE ppno) \o <<"%">>

isProductionQuery(question) == WholeWordAt(question, <<"p","r","o","d","u","c","t","i","o","n">>) # {}
\* a variant for the word completed alone
wantsCompletedOnly(question) == WholeWordAt(question, <<"c","o","m","p","l","e","t","e","d">>) # {}
\* /\bcompleted?\b/i
wantsCompleted(question) ==
  WholeWordAt(question, <<"c","o","m","p","l","e","t","e">>) \cup WholeWordAt(question, 
     <<"c","o","m","p","l","e","t","e","d">>) # {}
\* /\bcancel(?:led)?\b/i
wantsCancelled(question) ==
  WholeWordAt(question, <<"c","a","n","c","e","l">>) \cup WholeWordAt(question, 
     <<"c","a","n","c","e","l","l","e","d">>) # {}

(***************************************************************************)
(* The SKU stock fast-path test (sqlAgent.js 369-390).                     *)
(***************************************************************************)
naturalLanguageWords ==
  { <<"w","h","a","t">>, 
    <<"w","h","a","t","s">>, 
    <<"h","o","w">>, 
    <<"s","h","o","w">>, 
    <<"l","i","s","t">>, 
    <<"g","i","v","e">>, 
    <<"g","e","t">>, 
    <<"f","i","n","d">>, 
    <<"f","e","t","c","h">>, 
    <<"t","e","l","l">>, 
    <<"i","s">>, 
    <<"a","r","e">>, 
    <<"t","h","e">>, 
    <<"a">>, 
    <<"a","n">>, 
    <<"o","f">>, 
    <<"f","o","r">>, 
    <<"i","n">>, 
    <<"a","l","l">>, 
    <<"m","e">>, 
    <<"c","h","e","c","k">>, 
    <<"a","n","y">>, 
    <<"c","u","r","r","e","n","t">>, 
    <<"a","v","a","i","l","a","b","l","e">>, 
    <<"t","o","t","a","l">>, 
    <<"r","e","m","a","i","n","i","n","g">>, 
    <<"o","r","d","e","r">>, 
    <<"o","r","d","e","r","s">>, 
    <<"p","e","n","d","i","n","g">>, 
    <<"c","o","m","p","l","e","t","e","d">>, 
    <<"p","r","o","g","r","e","s","s">>, 
    <<"i","n","p","r","o","g","r","e","s","s">>, 
    <<"d","i","s","p","a","t","c","h">>, 
    <<"d","i","s","p","a","t","c","h","e","s">>, 
    <<"i","n","v","o","i","c","e">>, 
    <<"i","n","v","o","i","c","e","s">>, 
    <<"s","t","a","t","u","s">>, 
    <<"c","u","s","t","o","m","e","r">>, 
    <<"p","r","o","d","u","c","t","i","o","n">>, 
    <<"p","l","a","n">>, 
    <<"d","a","t","a">>, 
    <<"n","u","m","b","e","r">>, 
    <<"p","p">>, 
    <<"p","v","t">>, 
    <<"l","t","d">>, 
    <<"p","r","i","v","a","t","e">>, 
    <<"l","i","m","i","t","e","d">>, 
    <<"i","n","d","i","a">>, 
    <<"i","n","d","u","s","t","r","i","e","s">>, 
    <<"c","o","m","p","a","n","y">>, 
    <<"c","o","r","p">>, 
    <<"c","o","r","p","o","r","a","t","i","o","n">>, 
    <<"e","n","t","e","r","p","r","i","s","e","s">>, 
    <<"s","o","l","u","t","i","o","n","s">>, 
    <<"s","e","r","v","i","c","e","s">>, 
    <<"g","r","o","u","p">>, 
    <<"h","o","s","e">>, 
    <<"p","i","p","e">>, 
    <<"s","t","e","e","l">>, 
    <<"m","e","t","a","l","s">>, 
    <<"f","o","r","g","i","n","g">>, 
    <<"c","a","s","t","i","n","g">>, 
    <<"e","n","g","i","n","e","e","r","i","n","g">> }

\* s.split(/\s+/): the pieces between the runs of whitespace
RECURSIVE splitSpaces(_)
splitSpaces(s) ==
  LET gaps == {i \in 1..Len(s) : IsSpace(s[i])}
  IN IF gaps = {} THEN << s >>
     ELSE LET g == SetMin(gaps)
              rest == {i \in (g + 1)..Len(s) : ~IsSpace(s[i])}
          IN << SubSeq(s, 1, g - 1) >> \o
             (IF rest = {} THEN << << >> >> ELSE splitSpaces(SubSeq(s, SetMin(rest), Len(s))))

\* s.replace(/^stock\s+/i, '')
stripLeadingStock(s) ==
  IF MatchAtI(s, 1, <<"s","t","o","c","k">>) /\ Len(s) >= 6 /\ IsSpace(s[6])
    THEN LET rest == {i \in 6..Len(s) : ~IsSpace(s[i])}
         IN IF rest = {} THEN << >> ELSE SubSeq(s, SetMin(rest), Len(s))
    ELSE s

\* s.replace(/\s+stock$/i, '')
stripTrailingStock(s) ==
  IF Len(s) >= 6 /\ MatchAtI(s, Len(s) - 4, <<"s","t","o","c","k">>) /\ IsSpace(s[Len(s) - 5])
    THEN LET solid == {i \in 1..(Len(s) - 5) : ~IsSpace(s[i])}
         IN IF solid = {} THEN << >> ELSE SubSeq(s, 1, SetMax(solid))
    ELSE s

stripped(question) == trim(stripTrailingStock(stripLeadingStock(trim(question))))
hadStockWord(question) == Len(stripped(question)) < Len(trim(question))
strippedWords(question) == splitSpaces(toLowerCase(stripped(question)))
hasNaturalWords(question) ==
  LET ws == strippedWords(question)
  IN \E k \in 1..Len(ws) : ws[k] \in naturalLanguageWords

IsSkuSeparator(c) == c = "-" \/ IsSpace(c)
\* the pieces of s between single separator characters
RECURSIVE splitSeparators(_)
splitSeparators(s) ==
  LET seps == {i \in 1..Len(s) : IsSkuSeparator(s[i])}
  IN IF seps = {} THEN << s >>
     ELSE << SubSeq(s, 1, SetMin(seps) - 1) >> \o splitSeparators(SubSeq(s, SetMin(seps) + 1, Len(s)))

\* /^[a-zA-Z0-9]+([-\s][a-zA-Z0-9.]+){1,8}$/.test(s)
TestSkuShape(s) ==
  LET groups == splitSeparators(s)
  IN /\ Len(groups) >= 2
     /\ Len(groups) <= 9
     /\ \A k \in 1..Len(groups) : groups[k] # << >>
     /\ \A i \in 1..Len(groups[1]) : IsAlnum(groups[1][i])
     /\ \A k \in 2..Len(groups) : \A i \in 1..Len(groups[k]) : IsAlnum(groups[k][i]) \/ groups[k][i] = "."

looksLikeSku(question) == ~hasNaturalWords(question) /\ TestSkuShape(stripped(question))
isStockQuery(question) ==
  (hadStockWord(question) /\ ~hasNaturalWords(question)) \/ looksLikeSku(question)

(***************************************************************************)
(* findCustomerInQuestion: the candidate words (sqlAgent.js 134-154).      *)
(***************************************************************************)
skipWords ==
  { <<"g","i","v","e">>, 
    <<"m","e">>, 
    <<"a","l","l">>, 
    <<"s","h","o","w">>, 
    <<"l","i","s","t">>, 
    <<"g","e","t">>, 
    <<"f","i","n","d">>, 
    <<"f","e","t","c","h">>, 
    <<"w","h","a","t">>, 
    <<"a","r","e">>, 
    <<"i","s">>, 
    <<"w","a","s">>, 
    <<"w","e","r","e">>, 
    <<"h","a","v","e">>, 
    <<"h","a","s">>, 
    <<"d","o">>, 
    <<"d","o","e","s">>, 
    <<"d","i","d">>, 
    <<"c","a","n">>, 
    <<"p","e","n","d","i","n","g">>, 
    <<"c","o","m","p","l","e","t","e","d">>, 
    <<"i","n","_","p","r","o","g","r","e","s","s">>, 
    <<"i","n","p","r","o","g","r","e","s","s">>, 
    <<"p","r","o","g","r","e","s","s">>, 
    <<"o","r","d","e","r">>, 
    <<"o","r","d","e","r","s">>, 
    <<"d","i","s","p","a","t","c","h">>, 
    <<"d","i","s","p","a","t","c","h","e","s">>, 
    <<"i","n","v","o","i","c","e">>, 
    <<"i","n","v","o","i","c","e","s">>, 
    <<"s","t","a","t","u","s">>, 
    <<"d","e","t","a","i","l">>, 
    <<"d","e","t","a","i","l","s">>, 
    <<"s","u","m","m","a","r","y">>, 
    <<"r","e","p","o","r","t">>, 
    <<"a","v","a","i","l","a","b","l","e">>, 
    <<"t","h","e">>, 
    <<"a">>, 
    <<"a","n">>, 
    <<"a","n","d">>, 
    <<"o","r">>, 
    <<"o","f">>, 
    <<"f","o","r">>, 
    <<"b","y">>, 
    <<"i","n">>, 
    <<"o","n">>, 
    <<"a","t">>, 
    <<"m","y">>, 
    <<"o","u","r">>, 
    <<"t","h","e","i","r">>, 
    <<"t","o","d","a","y">>, 
    <<"y","e","s","t","e","r","d","a","y">>, 
    <<"w","e","e","k">>, 
    <<"m","o","n","t","h">>, 
    <<"y","e","a","r">>, 
    <<"c","u","s","t","o","m","e","r">>, 
    <<"c","u","s","t","o","m","e","r","s">>, 
    <<"m","a","r","k","e","t","i","n","g">>, 
    <<"p","e","r","s","o","n">>, 
    <<"h","o","w">>, 
    <<"m","a","n","y">>, 
    <<"w","h","i","c","h">>, 
    <<"w","h","e","r","e">>, 
    <<"w","h","e","n">>, 
    <<"w","h","o">>, 
    <<"w","h","y">>, 
    <<"p","l","e","a","s","e">>, 
    <<"t","e","l","l">>, 
    <<"a","b","o","u","t">>, 
    <<"s","t","o","c","k">>, 
    <<"s","k","u">>, 
    <<"i","n","v","e","n","t","o","r","y">>, 
    <<"c","l","o","s","i","n","g">>, 
    <<"o","p","e","n","i","n","g">>, 
    <<"i","n","w","a","r","d">>, 
    <<"o","u","t","w","a","r","d">> }

\* word.replace(/[^a-zA-Z0-9]/g, '')
clean(word) == SelectSeq(word, IsAlnum)

questionWords(question) == splitSpaces(trim(question))
\* a variant without the stop words
IsCandidateAnyWord(word) == Len(clean(word)) >= 2
IsCandidate(word) == Len(clean(word)) >= 2 /\ toLowerCase(clean(word)) \notin skipWords

(***************************************************************************)
(* The statements of the source, as written there.                         *)
(***************************************************************************)
tables ==
  << <<"D","a","t","a","b","a","s","e","_","o","r","d","e","r","r","e","g","i","s","t","e","r">>,
     <<"m","a","s","t","e","r","c","u","s","t","o","m","e","r">>,
     <<"D","a","t","a","b","a","s","e","_","d","e","s","p","a","t","c","h">>,
     <<"D","a","t","a","b","a","s","e","_","w","e","i","g","h","t","m","e","n","t">>,
     
     <<"D","a","t","a","b","a","s","e","_","d","e","s","p","a","t","c","h","i","n","v","o","i","c",
       "e">>,
     <<"D","a","t","a","b","a","s","e","_","s","k","u">>,
     <<"D","a","t","a","b","a","s","e","_","s","t","o","c","k","r","e","g","i","s","t","e","r">>,
     <<"D","a","t","a","b","a","s","e","_","r","e","j","e","c","t","e","d","s","t","o","c","k">>,
     
     <<"D","a","t","a","b","a","s","e","_","q","u","a","r","a","n","t","i","n","e","s","t","o","c",
       "k">>,
     <<"D","a","t","a","b","a","s","e","_","g","r","a","d","e">>,
     <<"D","a","t","a","b","a","s","e","_","c","o","n","d","i","t","i","o","n">>,
     <<"D","a","t","a","b","a","s","e","_","s","h","a","p","e">>,
     <<"D","a","t","a","b","a","s","e","_","s","i","z","e">>,
     <<"D","a","t","a","b","a","s","e","_","p","r","o","d","u","c","t","i","o","n">> >>

\* `DESCRIBE thirupathybright.${tableName}` (sqlAgent.js 55)
describeSQL(tableName) == 
     <<"D","E","S","C","R","I","B","E"," ","t","h","i","r","u","p","a","t","h","y","b","r","i","g",
       "h","t",".">> \o tableName

\* sqlAgent.js 119
lookupSQL == 
     <<"S","E","L","E","C","T"," ","i","d",","," ","c","u","s","t","o","m","e","r","_","n","a","m",
       "e"," ","F","R","O","M"," ","t","h","i","r","u","p","a","t","h","y","b","r","i","g","h","t",
       ".","m","a","s","t","e","r","c","u","s","t","o","m","e","r"," ","W","H","E","R","E"," ","L",
       "O","W","E","R","(","c","u","s","t","o","m","e","r","_","n","a","m","e",")"," ","L","I","K",
       "E"," ","L","O","W","E","R","(","?",")"," ","L","I","M","I","T"," ","2","0">>

\* sqlAgent.js 192, 196, 200
barSQL ==
  [regular |-> 
     <<"S","E","L","E","C","T"," ","C","O","A","L","E","S","C","E","(","s",".","c","l","o","s","i",
       "n","g","_","q","t","y",","," ","0",")"," ","A","S"," ","c","l","o","s","i","n","g","_","q",
       "t","y"," ","F","R","O","M"," ","t","h","i","r","u","p","a","t","h","y","b","r","i","g","h",
       "t",".","D","a","t","a","b","a","s","e","_","s","t","o","c","k","r","e","g","i","s","t","e",
       "r"," ","s"," ","L","E","F","T"," ","J","O","I","N"," ","t","h","i","r","u","p","a","t","h",
       "y","b","r","i","g","h","t",".","D","a","t","a","b","a","s","e","_","s","k","u"," ","s","k",
       " ","O","N"," ","s",".","s","k","u","_","i","d"," ","="," ","s","k",".","i","d"," ","W","H",
       "E","R","E"," ","s","k",".","i","s","_","b","l","a","c","k","b","a","r"," ","="," ","?">>,
   rejected |-> 
     <<"S","E","L","E","C","T"," ","C","O","A","L","E","S","C","E","(","r",".","c","l","o","s","i",
       "n","g","_","q","t","y",","," ","0",")"," ","A","S"," ","c","l","o","s","i","n","g","_","q",
       "t","y"," ","F","R","O","M"," ","t","h","i","r","u","p","a","t","h","y","b","r","i","g","h",
       "t",".","D","a","t","a","b","a","s","e","_","r","e","j","e","c","t","e","d","s","t","o","c",
       "k"," ","r"," ","L","E","F","T"," ","J","O","I","N"," ","t","h","i","r","u","p","a","t","h",
       "y","b","r","i","g","h","t",".","D","a","t","a","b","a","s","e","_","s","k","u"," ","s","k",
       " ","O","N"," ","r",".","s","k","u","_","i","d"," ","="," ","s","k",".","i","d"," ","W","H",
       "E","R","E"," ","s","k",".","i","s","_","b","l","a","c","k","b","a","r"," ","="," ","?">>,
   quarantine |-> 
     <<"S","E","L","E","C","T"," ","C","O","A","L","E","S","C","E","(","q",".","c","l","o","s","i",
       "n","g","_","q","t","y",","," ","0",")"," ","A","S"," ","c","l","o","s","i","n","g","_","q",
       "t","y"," ","F","R","O","M"," ","t","h","i","r","u","p","a","t","h","y","b","r","i","g","h",
       "t",".","D","a","t","a","b","a","s","e","_","q","u","a","r","a","n","t","i","n","e","s","t",
       "o","c","k"," ","q"," ","L","E","F","T"," ","J","O","I","N"," ","t","h","i","r","u","p","a",
       "t","h","y","b","r","i","g","h","t",".","D","a","t","a","b","a","s","e","_","s","k","u"," ",
       "s","k"," ","O","N"," ","q",".","s","k","u","_","i","d"," ","="," ","s","k",".","i","d"," ",
       "W","H","E","R","E"," ","s","k",".","i","s","_","b","l","a","c","k","b","a","r"," ","="," ",
       "?">>]

\* sqlAgent.js 274-285 and 338-350: the part the two statements share
productionSelect == 
     <<"S","E","L","E","C","T","\n"," "," ","p",".","*",",","\n"," "," ","c",".","c","u","s","t",
       "o","m","e","r","_","n","a","m","e",",","\n"," "," ","C","O","N","C","A","T","(","g",".","n",
       "a","m","e",","," ","'"," ","-"," ","'",","," ","c","o","n","d",".","n","a","m","e",","," ",
       "'"," ","-"," ","'",","," ","s","h",".","n","a","m","e",","," ","'"," ","-"," ","'",","," ",
       "s","z",".","n","a","m","e",")"," ","A","S"," ","s","k","u","\n","F","R","O","M"," ","t","h",
       "i","r","u","p","a","t","h","y","b","r","i","g","h","t",".","D","a","t","a","b","a","s","e",
       "_","p","r","o","d","u","c","t","i","o","n"," ","p","\n","L","E","F","T"," ","J","O","I","N",
       " ","t","h","i","r","u","p","a","t","h","y","b","r","i","g","h","t",".","m","a","s","t","e",
       "r","c","u","s","t","o","m","e","r"," ","c"," ","O","N"," ","p",".","c","u","s","t","o","m",
       "e","r","_","i","d"," ","="," ","c",".","i","d","\n","L","E","F","T"," ","J","O","I","N"," ",
       "t","h","i","r","u","p","a","t","h","y","b","r","i","g","h","t",".","D","a","t","a","b","a",
       "s","e","_","g","r","a","d","e"," ","g"," ","O","N"," ","p",".","g","r","a","d","e","_","i",
       "d"," ","="," ","g",".","i","d","\n","L","E","F","T"," ","J","O","I","N"," ","t","h","i","r",
       "u","p","a","t","h","y","b","r","i","g","h","t",".","D","a","t","a","b","a","s","e","_","c",
       "o","n","d","i","t","i","o","n"," ","c","o","n","d"," ","O","N"," ","p",".","c","o","n","d",
       "i","t","i","o","n","_","i","d"," ","="," ","c","o","n","d",".","i","d","\n","L","E","F","T",
       " ","J","O","I","N"," ","t","h","i","r","u","p","a","t","h","y","b","r","i","g","h","t",".",
       "D","a","t","a","b","a","s","e","_","s","h","a","p","e"," ","s","h"," ","O","N"," ","p",".",
       "s","h","a","p","e","_","i","d"," ","="," ","s","h",".","i","d","\n","L","E","F","T"," ","J",
       "O","I","N"," ","t","h","i","r","u","p","a","t","h","y","b","r","i","g","h","t",".","D","a",
       "t","a","b","a","s","e","_","s","i","z","e"," ","s","z"," ","O","N"," ","p",".","f","i","n",
       "i","s","h","_","m","e","t","a","l","_","s","i","z","e","_","i","d"," ","="," ","s","z",".",
       "i","d","\n","W","H","E","R","E"," ">>

\* sqlAgent.js 274-285 (after .trim())
ppSQL == productionSelect \o 
     <<"U","P","P","E","R","(","p",".","p","p","n","o",")"," ","="," ","?"," ","O","R"," ","U","P",
       "P","E","R","(","p",".","p","p","n","o",")"," ","L","I","K","E"," ","?"," ","O","R"," ","U",
       "P","P","E","R","(","p",".","p","p","n","o","r","e","f","e","r","e","n","c","e",")"," ","=",
       " ","?"," ","O","R"," ","U","P","P","E","R","(","p",".","p","p","n","o","r","e","f","e","r",
       "e","n","c","e",")"," ","L","I","K","E"," ","?">>

\* sqlAgent.js 325-327
statusClause(question) ==
  IF wantsCompleted(question) THEN 
     <<"p",".","s","t","a","t","u","s"," ","="," ","'","c","o","m","p","l","e","t","e","d","'">>
  ELSE IF wantsCancelled(question) THEN 
     <<"p",".","s","t","a","t","u","s"," ","="," ","'","c","a","n","c","e","l","l","e","d","'">>
  ELSE 
     <<"p",".","s","t","a","t","u","s"," ","I","N"," ","(","'","p","e","n","d","i","n","g","'",",",
       " ","'","i","n","_","p","r","o","g","r","e","s","s","'",")">>

\* customers.map(c => c.id).join(', ')
idList(customers) == join([k \in 1..Len(customers) |-> customers[k].id], <<","," ">>)

\* sqlAgent.js 330-336: '' when no customer was resolved
prodCustomerClause(match) ==
  IF match = null THEN << >>
  ELSE 
     <<" ","A","N","D"," ","p",".","c","u","s","t","o","m","e","r","_","i","d"," ","I","N"," ","(">> \o idList(match.customers) \o <<")">>

\* sqlAgent.js 338-350 (after .trim()), for a status clause and a customer clause
prodStatement(status, customerClause) ==
  productionSelect \o status \o customerClause \o 
     <<"\n","O","R","D","E","R"," ","B","Y"," ","p",".","c","r","e","a","t","e","d","_","a","t"," ",
       "D","E","S","C">>
prodSQL(question, match) ==
  prodStatement(statusClause(question), prodCustomerClause(match))

\* sqlAgent.js 398, 402, 406
stockSQL ==
  [regular |-> 
     <<"S","E","L","E","C","T"," ","s",".","*",","," ","s","k",".","s","k","u","n","a","m","e"," ",
       "F","R","O","M"," ","t","h","i","r","u","p","a","t","h","y","b","r","i","g","h","t",".","D",
       "a","t","a","b","a","s","e","_","s","t","o","c","k","r","e","g","i","s","t","e","r"," ","s",
       " ","L","E","F","T"," ","J","O","I","N"," ","t","h","i","r","u","p","a","t","h","y","b","r",
       "i","g","h","t",".","D","a","t","a","b","a","s","e","_","s","k","u"," ","s","k"," ","O","N",
       " ","s",".","s","k","u","_","i","d"," ","="," ","s","k",".","i","d"," ","W","H","E","R","E",
       " ","L","O","W","E","R","(","s","k",".","s","k","u","n","a","m","e",")"," ","L","I","K","E",
       " ","L","O","W","E","R","(","?",")">>,
   rejected |-> 
     <<"S","E","L","E","C","T"," ","r",".","*",","," ","s","k",".","s","k","u","n","a","m","e"," ",
       "F","R","O","M"," ","t","h","i","r","u","p","a","t","h","y","b","r","i","g","h","t",".","D",
       "a","t","a","b","a","s","e","_","r","e","j","e","c","t","e","d","s","t","o","c","k"," ","r",
       " ","L","E","F","T"," ","J","O","I","N"," ","t","h","i","r","u","p","a","t","h","y","b","r",
       "i","g","h","t",".","D","a","t","a","b","a","s","e","_","s","k","u"," ","s","k"," ","O","N",
       " ","r",".","s","k","u","_","i","d"," ","="," ","s","k",".","i","d"," ","W","H","E","R","E",
       " ","L","O","W","E","R","(","s","k",".","s","k","u","n","a","m","e",")"," ","L","I","K","E",
       " ","L","O","W","E","R","(","?",")">>,
   quarantine |-> 
     <<"S","E","L","E","C","T"," ","q",".","*",","," ","s","k",".","s","k","u","n","a","m","e"," ",
       "F","R","O","M"," ","t","h","i","r","u","p","a","t","h","y","b","r","i","g","h","t",".","D",
       "a","t","a","b","a","s","e","_","q","u","a","r","a","n","t","i","n","e","s","t","o","c","k",
       " ","q"," ","L","E","F","T"," ","J","O","I","N"," ","t","h","i","r","u","p","a","t","h","y",
       "b","r","i","g","h","t",".","D","a","t","a","b","a","s","e","_","s","k","u"," ","s","k"," ",
       "O","N"," ","q",".","s","k","u","_","i","d"," ","="," ","s","k",".","i","d"," ","W","H","E",
       "R","E"," ","L","O","W","E","R","(","s","k",".","s","k","u","n","a","m","e",")"," ","L","I",
       "K","E"," ","L","O","W","E","R","(","?",")">>]

(***************************************************************************)
(* SQL synthesis: the access-scope instruction of the prompt and the       *)
(* clean-up of the generated text (sqlAgent.js 454-475, 570-580).          *)
(***************************************************************************)
\* mp.replace(/'/g, "''")
RECURSIVE escapeQuotes(_)
escapeQuotes(mp) ==
  LET quotes == {i \in 1..Len(mp) : mp[i] = "'"}
  IN IF quotes = {} THEN mp
     ELSE SubSeq(mp, 1, SetMin(quotes)) \o <<"'">> \o escapeQuotes(SubSeq(mp, SetMin(quotes) + 1, Len(mp)))

\* the WHERE clause the prompt asks for: = for one value, IN (...) for several
scopeClause(persons) ==
  IF Len(persons) = 1
    THEN <<"m","a","r","k","e","t","i","n","g","_","p","e","r","s","o","n"," ","="," ","'">> \o escapeQuotes(persons[1]) \o <<"'">>
    ELSE <<"m","a","r","k","e","t","i","n","g","_","p","e","r","s","o","n"," ","I","N"," ","(">>
           \o join([k \in 1..Len(persons) |-> <<"'">> \o escapeQuotes(persons[k]) \o <<"'">>], 
     <<","," ">>)
           \o <<")">>

\* a variant that writes the block whatever the length of the list
marketingPersonFilterAlways(persons) ==
  
     <<"\n","\n","C","R","I","T","I","C","A","L"," ","S","E","C","U","R","I","T","Y"," ","F","I",
       "L","T","E","R",":","\n","Y","o","u"," ","M","U","S","T"," ","a","d","d"," ","t","h","i","s",
       " ","W","H","E","R","E"," ","c","l","a","u","s","e"," ","t","o"," ","A","L","L"," ","q","u",
       "e","r","i","e","s"," ","i","n","v","o","l","v","i","n","g"," ","D","a","t","a","b","a","s",
       "e","_","o","r","d","e","r","r","e","g","i","s","t","e","r",":","\n","W","H","E","R","E",
       " ">>
    \o <<"m","a","r","k","e","t","i","n","g","_","p","e","r","s","o","n"," ","I","N"," ","(">>
    \o join([k \in 1..Len(persons) |-> <<"'">> \o persons[k] \o <<"'">>], <<","," ">>) \o <<")">>

\* the filter block of the prompt: '' when the request has no scope (455-475)
marketingPersonFilter(persons) ==
  IF Len(persons) = 0 THEN << >>
  ELSE 
     <<"\n","\n","C","R","I","T","I","C","A","L"," ","S","E","C","U","R","I","T","Y"," ","F","I",
       "L","T","E","R",":","\n","Y","o","u"," ","M","U","S","T"," ","a","d","d"," ","t","h","i","s",
       " ","W","H","E","R","E"," ","c","l","a","u","s","e"," ","t","o"," ","A","L","L"," ","q","u",
       "e","r","i","e","s"," ","i","n","v","o","l","v","i","n","g"," ","D","a","t","a","b","a","s",
       "e","_","o","r","d","e","r","r","e","g","i","s","t","e","r",":","\n","W","H","E","R","E",
       " ">>
         \o scopeClause(persons)
         \o (IF Len(persons) = 1
              THEN 
     <<"\n","\n","T","h","i","s"," ","u","s","e","r"," ","c","a","n"," ","O","N","L","Y"," ","s",
       "e","e"," ","o","r","d","e","r","s"," ","a","s","s","i","g","n","e","d"," ","t","o"," ","m",
       "a","r","k","e","t","i","n","g"," ","p","e","r","s","o","n",":"," ">> \o persons[1]
              ELSE 
     <<"\n","\n","T","h","i","s"," ","u","s","e","r"," ","c","a","n"," ","O","N","L","Y"," ","s",
       "e","e"," ","o","r","d","e","r","s"," ","a","s","s","i","g","n","e","d"," ","t","o"," ","t",
       "h","e","s","e"," ","m","a","r","k","e","t","i","n","g"," ","p","e","r","s","o","n","s",":",
       " ">>
                     \o join(persons, <<","," ">>))
         \o 
     <<"\n","A","l","w","a","y","s"," ","i","n","c","l","u","d","e"," ","t","h","i","s"," ","f","i",
       "l","t","e","r"," ","i","n"," ","y","o","u","r"," ","S","Q","L"," ","q","u","e","r","i","e",
       "s","."," ","T","h","i","s"," ","i","s"," ","a"," ","s","e","c","u","r","i","t","y"," ","r",
       "e","q","u","i","r","e","m","e","n","t",".">>

\* the customer filter block of the prompt: '' when no customer was resolved
nameList(customers) == join([k \in 1..Len(customers) |-> customers[k].customer_name], <<","," ">>)
customerIdFilter(match) ==
  IF match = null THEN << >>
  ELSE 
     <<"\n","\n","C","U","S","T","O","M","E","R"," ","F","I","L","T","E","R"," ","(","p","r","e",
       "-","r","e","s","o","l","v","e","d"," ","f","r","o","m"," ","d","a","t","a","b","a","s","e",
       ")",":","\n","T","h","e"," ","q","u","e","s","t","i","o","n"," ","r","e","f","e","r","s"," ",
       "t","o"," ","c","u","s","t","o","m","e","r"," ","k","e","y","w","o","r","d"," ","\"">>
         \o match.keyword
         \o 
     <<"\"",".","\n","M","a","t","c","h","e","d"," ","c","u","s","t","o","m","e","r","s"," ","i",
       "n"," ","m","a","s","t","e","r","c","u","s","t","o","m","e","r",":"," ">> \o nameList(match.customers)
         \o 
     <<"\n","T","h","e","i","r"," ","c","u","s","t","o","m","e","r"," ","I","D","s"," ","a","r","e",
       ":"," ">> \o idList(match.customers)
         \o 
     <<"\n","Y","o","u"," ","M","U","S","T"," ","f","i","l","t","e","r"," ","o","r","d","e","r","s",
       " ","u","s","i","n","g",":"," ","o",".","c","u","s","t","o","m","e","r","_","i","d"," ","I",
       "N"," ","(">> \o idList(match.customers)
         \o 
     <<")","\n","D","o"," ","N","O","T"," ","u","s","e"," ","L","I","K","E"," ","o","n"," ","c","u",
       "s","t","o","m","e","r","_","n","a","m","e"," ","-"," ","u","s","e"," ","t","h","e"," ","c",
       "u","s","t","o","m","e","r","_","i","d"," ","I","N"," ","f","i","l","t","e","r"," ","i","n",
       "s","t","e","a","d",".">>

\* s.replace(/pattern/g, ''): s with every match removed, where lens[i] is the length of the match of the
\* pattern at position i (0: no match there); matches are found left to right
RECURSIVE removeMatches(_, _, _)
removeMatches(s, i, lens) ==
  LET starts == {k \in i..Len(s) : lens[k] > 0}
  IN IF starts = {} THEN SubSeq(s, i, Len(s))
     ELSE SubSeq(s, i, SetMin(starts) - 1)
            \o removeMatches(s, SetMin(starts) + lens[SetMin(starts)], lens)

\* /'''sql\n?/ with backticks for the quotes
FenceSqlLen(s, i) ==
  IF MatchAt(s, i, <<Backtick,Backtick,Backtick,"s","q","l">>) THEN (IF i + 6 <= Len(s) /\ s[i + 6] = "\n" THEN 7 ELSE 6) ELSE 0
\* /'''\n?/ with backticks for the quotes
FenceLen(s, i) ==
  IF MatchAt(s, i, <<Backtick,Backtick,Backtick>>) THEN (IF i + 3 <= Len(s) /\ s[i + 3] = "\n" THEN 4 ELSE 3) ELSE 0
\* end of the run of whitespace that starts at position i (i - 1 if there is none)
RECURSIVE SpacesEnd(_, _)
SpacesEnd(s, i) == IF i <= Len(s) /\ IsSpace(s[i]) THEN SpacesEnd(s, i + 1) ELSE i - 1
\* /\bLIMIT\s+\d+\b/i
LimitLen(s, i) ==
  IF /\ WordBoundary(s, i)
     /\ MatchAtI(s, i, <<"l","i","m","i","t">>)
     /\ SpacesEnd(s, i + 5) >= i + 5
     /\ DigitsEnd(s, SpacesEnd(s, i + 5) + 1) > SpacesEnd(s, i + 5)
     /\ WordBoundary(s, DigitsEnd(s, SpacesEnd(s, i + 5) + 1) + 1)
    THEN DigitsEnd(s, SpacesEnd(s, i + 5) + 1) - i + 1
    ELSE 0
\* s.replace(/;\s*$/, '')
stripSemicolon(s) ==
  LET at == {i \in 1..Len(s) : s[i] = ";" /\ \A k \in (i + 1)..Len(s) : IsSpace(s[k])}
  IN IF at = {} THEN s ELSE SubSeq(s, 1, SetMin(at) - 1)

\* sqlAgent.js 577: the markdown fences removed
removeSqlFences(s) == removeMatches(s, 1, [i \in 1..Len(s) |-> FenceSqlLen(s, i)])
removeFences(s) == removeMatches(s, 1, [i \in 1..Len(s) |-> FenceLen(s, i)])
removeLimits(s) == removeMatches(s, 1, [i \in 1..Len(s) |-> LimitLen(s, i)])
stripFences(content) == trim(removeFences(removeSqlFences(trim(content))))
\* sqlAgent.js 580: LIMIT clauses and the final semicolon removed
stripLimit(text) == stripSemicolon(trim(removeLimits(text)))
cleanSQL(content) == stripLimit(stripFences(content))

(***************************************************************************)
(* Inputs of the model: the questions, the access scopes, the texts the    *)
(* generation backend may answer with, and the rows the database holds.    *)
(***************************************************************************)
\* a question is at most MaxPhrases of the phrases below, joined by spaces
MaxPhrases == 2
Phrases ==
  << <<"b","l","a","c","k"," ","b","a","r">>, <<"B","r","i","g","h","t","B","a","r">>, <<"t","o","t","a","l"," ","s","t","o","c","k">>, <<"s","t","o","c","k">>, 
     <<"P","p","-","2","6","0","2","-","1","5","9","5">>,
     <<"p","r","o","d","u","c","t","i","o","n","?">>, 
     <<"p","r","o","d","u","c","t","i","o","n"," ","p","e","n","d","i","n","g"," ","f","o","r"," ",
       "P","P","-","2","6","0","2","-","1","5","9","5">>, <<"E","N","1","A","-","1","0">>, <<"S","S","P","L">>,
     <<"p","p"," ","2","6","0","2"," ","9","9","9","9">> >>
Questions ==
  UNION {{join([k \in 1..n |-> Phrases[f[k]]], <<" ">>) : f \in [1..n -> 1..Len(Phrases)]} :
           n \in 1..MaxPhrases}

\* the questions for the production listing: the word production and up to
\* MaxStatusWords words about the status
MaxStatusWords == 2
StatusWords ==
  << <<"c","o","m","p","l","e","t","e","d">>, <<"c","o","m","p","l","e","t","e">>, <<"c","a","n","c","e","l","l","e","d">>, <<"c","a","n","c","e","l">>, 
     <<"c","a","n","c","e","l","l","a","t","i","o","n">>, 
     <<"u","n","c","o","m","p","l","e","t","e","d">>,
     <<"C","O","M","P","L","E","T","E","D">>, <<"p","e","n","d","i","n","g">> >>
StatusQuestions ==
  UNION {{join(<< <<"p","r","o","d","u","c","t","i","o","n">> >> \o [k \in 1..n |-> StatusWords[f[k]]], <<" ">>) :
            f \in [1..n -> 1..Len(StatusWords)]} : n \in 0..MaxStatusWords}

JsArray(v) == [t |-> "array", v |-> v]
\* the marketingPersons argument: absent, one scope value, several scope values
Scopes == {null, JsArray(<< <<"A","l","i","c","e">> >>), JsArray(<< <<"A","l","i","c","e">>, <<"O","'","N","e","i","l">> >>)}

\* completion.choices[0].message.content of the generation backend
BackendTexts ==
  { 
     <<"S","E","L","E","C","T"," ","o",".","*"," ","F","R","O","M"," ","t","h","i","r","u","p","a",
       "t","h","y","b","r","i","g","h","t",".","D","a","t","a","b","a","s","e","_","o","r","d","e",
       "r","r","e","g","i","s","t","e","r"," ","o"," ","W","H","E","R","E"," ","o",".","m","a","r",
       "k","e","t","i","n","g","_","p","e","r","s","o","n"," ","="," ","'","A","l","i","c","e","'">>,
    
     <<"S","E","L","E","C","T"," ","o",".","*"," ","F","R","O","M"," ","t","h","i","r","u","p","a",
       "t","h","y","b","r","i","g","h","t",".","D","a","t","a","b","a","s","e","_","o","r","d","e",
       "r","r","e","g","i","s","t","e","r"," ","o"," ","W","H","E","R","E"," ","o",".","m","a","r",
       "k","e","t","i","n","g","_","p","e","r","s","o","n"," ","I","N"," ","(","'","A","l","i","c",
       "e","'",","," ","'","O","'","'","N","e","i","l","'",")">>,
    
     <<"S","E","L","E","C","T"," ","o",".","*"," ","F","R","O","M"," ","t","h","i","r","u","p","a",
       "t","h","y","b","r","i","g","h","t",".","D","a","t","a","b","a","s","e","_","o","r","d","e",
       "r","r","e","g","i","s","t","e","r"," ","o"," ","W","H","E","R","E"," ","o",".","s","t","a",
       "t","u","s"," ","="," ","'","c","o","m","p","l","e","t","e","d","'">>,
    
     <<Backtick,Backtick,Backtick,"s","q","l","\n","S","E","L","E","C","T"," ","s","k",".","s","k",
       "u","n","a","m","e",","," ","s","k",".","u","p","d","a","t","e","d","_","a","t"," ","F","R",
       "O","M"," ","t","h","i","r","u","p","a","t","h","y","b","r","i","g","h","t",".","D","a","t",
       "a","b","a","s","e","_","s","k","u"," ","s","k"," ","L","I","M","I","T"," ","5","0",";","\n",
       Backtick,Backtick,Backtick>>,
    
     <<"D","E","L","E","T","E"," ","F","R","O","M"," ","t","h","i","r","u","p","a","t","h","y","b",
       "r","i","g","h","t",".","D","a","t","a","b","a","s","e","_","o","r","d","e","r","r","e","g",
       "i","s","t","e","r">>,
    
     <<"S","E","L","E","C","T"," ","1",";"," ","d","r","o","p"," ","t","a","b","l","e"," ","t","h",
       "i","r","u","p","a","t","h","y","b","r","i","g","h","t",".","D","a","t","a","b","a","s","e",
       "_","o","r","d","e","r","r","e","g","i","s","t","e","r">>,
    
     <<"S","e","l","e","c","t","i","n","g"," ","t","h","e"," ","o","r","d","e","r","s"," ","n","e",
       "e","d","s"," ","a"," ","c","u","s","t","o","m","e","r"," ","n","a","m","e",".">>,
    <<" ">> }

\* what the HTTP call to the generation backend ends with
BackendResponses ==
  {[kind |-> "rejected", message |-> <<"f","e","t","c","h"," ","f","a","i","l","e","d">>],
   [kind |-> "http_error", status |-> <<"5","0","0">>, body |-> 
     <<"u","p","s","t","r","e","a","m"," ","e","r","r","o","r">>],
   [kind |-> "no_choices"]}
  \cup {[kind |-> "content", content |-> c] : c \in BackendTexts}

\* thirupathybright.mastercustomer
mastercustomer ==
  << [id |-> <<"1","9","2","9">>, customer_name |-> 
     <<"S","S","P","L"," ","I","n","d","u","s","t","r","i","e","s">>],
     [id |-> <<"7">>, customer_name |-> <<"S","s","p","l"," ","F","o","r","g","i","n","g","s">>] >>

\* the three stock tables joined to Database_sku
stockTables ==
  [regular |-> << [skuname |-> <<"E","N","1","A","-","1","0">>, is_blackbar |-> 1, closing_qty |-> 5],
                  [skuname |-> <<"E","N","8","-","1","2">>, is_blackbar |-> 0, closing_qty |-> 3] >>,
   rejected |-> << [skuname |-> <<"E","N","1","A","-","1","0">>, is_blackbar |-> 1, closing_qty |-> 2] >>,
   quarantine |-> << [skuname |-> <<"E","N","8","-","1","2">>, is_blackbar |-> 0, closing_qty |-> 4] >>]

\* a row of thirupathybright.Database_production as the production statements select it
productionRow ==
  [ppno |-> <<"P","P","-","2","6","0","2","-","1","5","9","5">>, status |-> <<"i","n","_","p","r","o","g","r","e","s","s">>,
   customer_name |-> <<"S","S","P","L"," ","I","n","d","u","s","t","r","i","e","s">>, sku |-> 
     <<"E","N","1","A"," ","-"," ","B","l","a","c","k"," ","-"," ","C","O","I","L"," ","-"," ","1",
       "0">>]
\* a row of a synthesized statement
orderRow ==
  [order_number |-> <<"O","R","D","-","1">>, status |-> <<"p","e","n","d","i","n","g">>, marketing_person |-> <<"B","o","b">>]

\* what pool.execute ends with: the rows, or the driver's error
DriverOk(rows) == [ok |-> TRUE, rows |-> rows]
driverError == [ok |-> FALSE, message |-> 
     <<"c","o","n","n","e","c","t"," ","E","T","I","M","E","D","O","U","T">>]
DriverResults(row) == {driverError, DriverOk(<< >>), DriverOk(<< row >>)}

\* the rows of the bar-type statement on one stock table
barRows(source, barFlag) ==
  LET hit == SelectSeq(stockTables[source], LAMBDA r : r.is_blackbar = barFlag)
  IN [k \in 1..Len(hit) |-> [closing_qty |-> hit[k].closing_qty]]
\* the rows of the SKU statement on one stock table: LOWER(sk.skuname) LIKE LOWER('%keyword%')
stockRows(source, skuKeyword) ==
  SelectSeq(stockTables[source], LAMBDA r : includes(toLowerCase(r.skuname), toLowerCase(skuKeyword)))
\* the rows of the customer lookup: LOWER(customer_name) LIKE LOWER('%keyword%') LIMIT 20
customerRows(keyword) ==
  SelectSeq(mastercustomer, LAMBDA r : includes(toLowerCase(r.customer_name), toLowerCase(keyword)))

(***************************************************************************)
(* Tables of the pure functions above over the inputs of the model, so     *)
(* that each is computed once.                                             *)
(***************************************************************************)
PhraseWords == UNION {{questionWords(Phrases[p])[k] : k \in 1..Len(questionWords(Phrases[p]))} :
                        p \in 1..Len(Phrases)}
\* what findCustomerInQuestion can return for a question of the model
PossibleMatches ==
  {null} \cup {[keyword |-> clean(w), customers |-> customerRows(clean(w))] :
                 w \in {v \in PhraseWords : IsCandidate(v) /\ customerRows(clean(v)) # << >>}}
StatusClauses ==
  {statusClause(Phrases[p]) : p \in 1..Len(Phrases)}
    \cup {statusClause(StatusWords[p]) : p \in 1..Len(StatusWords)}
\* the statements that can be issued for a question of the model
KnownStatements ==
  {barSQL[src] : src \in DOMAIN barSQL} \cup {stockSQL[src] : src \in DOMAIN stockSQL}
    \cup {ppSQL, lookupSQL}
    \cup {prodStatement(status, prodCustomerClause(m)) : status \in StatusClauses, m \in PossibleMatches}
    \cup {cleanSQL(c) : c \in {t \in BackendTexts : trim(t) # << >>}}
    \cup {describeSQL(tables[k]) : k \in 1..Len(tables)}
safetyChecks == {[of |-> sql, is |-> safetyCheck(sql)] : sql \in KnownStatements}
(***************************************************************************)
(* executeQuery (sqlAgent.js 75-113).                                      *)
(***************************************************************************)
\* how a call of a JavaScript function ends
Return(value) == [kind |-> "return", value |-> value]
Throw(message) == [kind |-> "throw", message |-> message]

\* a variant without the catch block: the error leaves executeQuery
executeQueryRethrows(message) == Throw(message)

\* the catch block of executeQuery (104-112)
executeQueryCatch(message) ==
  Return([success |-> FALSE, error |-> JsString(message), rows |-> << >>, count |-> 0])

\* the statement is handed to pool.execute only when the safety check threw nothing
\* the safety check of a statement, from the table when it is there
checked(sql) ==
  IF sql \in KnownStatements THEN (CHOOSE e \in safetyChecks : e.of = sql).is ELSE safetyCheck(sql)
\* a variant without the safety check
reachesPoolUnguarded(sql) == TRUE
reachesPool(sql) == ~checked(sql).thrown

\* the call executeQuery(sql, params), where driver is what pool.execute ends with
executeQuery(sql, driver) ==
  IF ~reachesPool(sql) THEN executeQueryCatch(checked(sql).message)
  ELSE IF ~driver.ok THEN executeQueryCatch(driver.message)
  ELSE Return([success |-> TRUE, rows |-> driver.rows, count |-> Len(driver.rows)])

\* the record of one statement issued while a question is answered
Call(via, site, sql, params, driver, result) ==
  [via |-> via, site |-> site, sql |-> sql, params |-> params,
   reached |-> IF via = "executeQuery" THEN reachesPool(sql) ELSE TRUE,
   failed |-> (IF via = "executeQuery" THEN reachesPool(sql) ELSE TRUE) /\ ~driver.ok,
   result |-> result]
ExecCall(site, sql, params, driver) ==
  Call("executeQuery", site, sql, params, driver, executeQuery(sql, driver))

(***************************************************************************)
(* formatResultForAI (sqlAgent.js 689-903).  Rows are records; a column    *)
(* the row does not have is undefined.  Quantities are numbers, every      *)
(* other column is text.                                                   *)
(***************************************************************************)
\* the character U+2500
BoxDash == "box-dash"
\* '─'.repeat(30)
rule == [k \in 1..30 |-> BoxDash]
Digits == << "0", "1", "2", "3", "4", "5", "6", "7", "8", "9" >>
\* String(n) for a natural number
RECURSIVE digitsOf(_)
digitsOf(n) == IF n < 10 THEN << Digits[n + 1] >> ELSE digitsOf(n \div 10) \o << Digits[(n % 10) + 1] >>
\* n.toLocaleString() for a natural number: groups of three digits
RECURSIVE toLocaleString(_)
toLocaleString(n) ==
  IF n < 1000 THEN digitsOf(n)
  ELSE toLocaleString(n \div 1000) \o << ",", Digits[((n \div 100) % 10) + 1],
                                         Digits[((n \div 10) % 10) + 1], Digits[(n % 10) + 1] >>

NumericFields == {"closing_qty", "quantity_kg", "total_dispatched", "remaining_qty", "dispatch_count"}
\* r[k] !== undefined
has(r, k) == k \in DOMAIN r
\* the truth value of r[k]
truthy(r, k) == has(r, k) /\ r[k] # (IF k \in NumericFields THEN 0 ELSE << >>)
\* `${r[k]}`
textOf(r, k) == IF k \in NumericFields THEN digitsOf(r[k]) ELSE r[k]
\* r[keys[1]] || r[keys[2]] || ... || otherwise
RECURSIVE firstOf(_, _, _)
firstOf(r, keys, otherwise) ==
  IF keys = << >> THEN otherwise
  ELSE IF truthy(r, Head(keys)) THEN textOf(r, Head(keys))
  ELSE firstOf(r, Tail(keys), otherwise)
\* if (r[k]) out += `${label}${r[k]}\n`
lineIf(r, k, label) == IF truthy(r, k) THEN label \o textOf(r, k) \o << "\n" >> ELSE << >>
\* if (r[k] != null) out += `${label}${Number(r[k]).toLocaleString()}${unit}\n`
qtyLine(r, k, label, unit) ==
  IF has(r, k) THEN label \o toLocaleString(r[k]) \o unit \o << "\n" >> ELSE << >>
\* rows.forEach(r => { total += parseFloat(r[k] || 0) })
RECURSIVE sumOf(_, _)
sumOf(rows, k) ==
  IF rows = << >> THEN 0
  ELSE (IF truthy(Head(rows), k) THEN Head(rows)[k] ELSE 0) + sumOf(Tail(rows), k)
\* the pieces of a text appended one after the other
RECURSIVE concat(_)
concat(pieces) == IF pieces = << >> THEN << >> ELSE Head(pieces) \o concat(Tail(pieces))
\* rows.forEach((r, i) => { out += item(r, i + 1) })
forEach(rows, item(_, _)) == concat([i \in 1..Len(rows) |-> item(rows[i], i)])

\* 690-692; ${result.error} is the message of the error
databaseError(result) ==
  <<"D","a","t","a","b","a","s","e"," ","e","r","r","o","r",":"," ">> \o result.error.v \o 
     <<"."," ","P","l","e","a","s","e"," ","t","r","y"," ","a"," ","d","i","f","f","e","r","e","n",
       "t"," ","q","u","e","s","t","i","o","n",".">>
\* 695, 734
noDataFound == 
     <<"N","o"," ","d","a","t","a"," ","f","o","u","n","d"," ","f","o","r"," ","y","o","u","r"," ",
       "q","u","e","r","y",".">>
\* the sentinel around a ready-made reply (750, 794, 861, 880)
directReply(out) == <<"\n","\n","[","D","I","R","E","C","T","_","R","E","P","L","Y",":","\n">> \o out \o << "]" >>

\* a variant that never looks at the rows
isStockResultFlagOnly(result) == has(result, "_isStockQuery") /\ result._isStockQuery
\* 710: the first row alone decides
isStockResult(result) ==
  (has(result, "_isStockQuery") /\ result._isStockQuery)
    \/ (result.data # << >> /\ has(result.data[1], "closing_qty"))
\* 714-716
sourceOf(r) == IF has(r, "_stockSource") THEN r._stockSource ELSE "regular"
\* 718-731
stockItem(r, i) ==
  <<" "," ">> \o digitsOf(i) \o <<"."," ">>
    \o firstOf(r, << "skuname", "sku_code", "sku_name", "name", "sku_id", "id" >>, 
     <<"I","t","e","m"," ">> \o digitsOf(i))
    \o << "\n" >>
    \o lineIf(r, "unit", 
     <<" "," "," "," "," ","U","n","i","t"," "," "," "," "," "," "," "," ",":"," ">>)
    \o qtyLine(r, "closing_qty", 
     <<" "," "," "," "," ","C","l","o","s","i","n","g"," ","Q","t","y"," ",":"," ">>, << >>)
    \o lineIf(r, "date", 
     <<" "," "," "," "," ","D","a","t","e"," "," "," "," "," "," "," "," ",":"," ">>)
    \o << "\n" >>
formatSection(rows, label) ==
  IF rows = << >> THEN << >> ELSE label \o <<":","\n">> \o forEach(rows, stockItem)
\* 712-751
formatStock(result) ==
  LET data == result.data
      regular == SelectSeq(data, LAMBDA r : sourceOf(r) = "regular")
      rejected == SelectSeq(data, LAMBDA r : sourceOf(r) = "rejected")
      quarantine == SelectSeq(data, LAMBDA r : sourceOf(r) = "quarantine")
      skuHeader == firstOf(data[1], << "skuname", "sku_code", "sku_name", "name" >>, << >>)
  IN IF regular = << >> /\ rejected = << >> /\ quarantine = << >> THEN noDataFound
     ELSE directReply(
            (IF skuHeader # << >> THEN <<"S","t","o","c","k"," ","f","o","r",":"," ">> \o skuHeader \o << "\n" >> ELSE 
     <<"S","t","o","c","k"," ","S","u","m","m","a","r","y",":","\n">>)
              \o rule \o <<"\n","\n">>
              \o formatSection(regular, <<"R","e","g","u","l","a","r"," ","S","t","o","c","k">>)
              \o formatSection(rejected, <<"R","e","j","e","c","t","e","d"," ","S","t","o","c","k">>)
              \o formatSection(quarantine, 
     <<"Q","u","a","r","a","n","t","i","n","e"," ","S","t","o","c","k">>)
              \o (IF regular = << >> /\ (rejected # << >> \/ quarantine # << >>)
                    THEN 
     <<"R","e","g","u","l","a","r"," ","S","t","o","c","k"," ",":"," ","N","o"," ","d","a","t","a",
       "\n","\n">> ELSE << >>))

\* 754: the first row alone decides
isProductionResult(result) ==
  (has(result, "_isProductionQuery") /\ result._isProductionQuery)
    \/ (result.data # << >> /\ has(result.data[1], "ppno"))
\* result._statusContext || ''
statusContext(result) == IF has(result, "_statusContext") THEN result._statusContext ELSE << >>
\* a variant in which an exact PP lookup does not change the label
showingPendingAnyLookup(result) ==
  ~wantsCompleted(statusContext(result)) /\ ~wantsCancelled(statusContext(result))
\* 760
showingPending(result) ==
  /\ ~(has(result, "_ppLookup") /\ result._ppLookup)
  /\ ~wantsCompleted(statusContext(result))
  /\ ~wantsCancelled(statusContext(result))
\* a variant that shows the status word of a pending row outside the pending view
statusLabelLiteral(s, pendingView) ==
  IF s = <<"c","o","m","p","l","e","t","e","d">> THEN <<"C","o","m","p","l","e","t","e","d">>
  ELSE IF s = <<"c","a","n","c","e","l","l","e","d">> THEN <<"C","a","n","c","e","l","l","e","d">>
  ELSE IF s = <<"i","n","_","p","r","o","g","r","e","s","s">> THEN (IF pendingView THEN 
     <<"P","r","o","d","u","c","t","i","o","n"," ","N","o","t"," ","A","p","p","r","o","v","e","d">> ELSE 
     <<"I","n"," ","P","r","o","g","r","e","s","s">>)
  ELSE IF s = <<"p","e","n","d","i","n","g">> THEN (IF pendingView THEN 
     <<"P","r","o","d","u","c","t","i","o","n"," ","N","o","t"," ","A","p","p","r","o","v","e","d">> ELSE 
     <<"P","e","n","d","i","n","g">>)
  ELSE s
\* 762-768
statusLabel(s, pendingView) ==
  IF s = <<"c","o","m","p","l","e","t","e","d">> THEN <<"C","o","m","p","l","e","t","e","d">>
  ELSE IF s = <<"c","a","n","c","e","l","l","e","d">> THEN <<"C","a","n","c","e","l","l","e","d">>
  ELSE IF s = <<"i","n","_","p","r","o","g","r","e","s","s">> THEN (IF pendingView THEN 
     <<"P","r","o","d","u","c","t","i","o","n"," ","N","o","t"," ","A","p","p","r","o","v","e","d">> ELSE 
     <<"I","n"," ","P","r","o","g","r","e","s","s">>)
  ELSE IF s = <<"p","e","n","d","i","n","g">> THEN 
     <<"P","r","o","d","u","c","t","i","o","n"," ","N","o","t"," ","A","p","p","r","o","v","e","d">>
  ELSE s
\* 770-795
formatProduction(result) ==
  LET item(r, i) ==
        digitsOf(i) \o <<"."," ">> \o firstOf(r, << "ppno", "id" >>, <<"N","/","A">>)
          \o (IF truthy(r, "customer_name") THEN <<" ","|"," ">> \o r.customer_name ELSE << >>)
          \o << "\n" >>
          \o lineIf(r, "sku", 
     <<" "," "," ","S","K","U"," "," "," "," "," "," "," "," "," ",":"," ">>)
          \o qtyLine(r, "quantity_kg", 
     <<" "," "," ","Q","t","y"," ","(","k","g",")"," "," "," "," ",":"," ">>, << >>)
          \o (IF truthy(r, "status")
                THEN <<" "," "," ","S","t","a","t","u","s"," "," "," "," "," "," ",":"," ">> \o statusLabel(r.status, showingPending(result)) \o << "\n" >>
                ELSE << >>)
          \o lineIf(r, "expected_date", 
     <<" "," "," ","E","x","p","e","c","t","e","d"," "," "," "," ",":"," ">>)
          \o lineIf(r, "ppnoreference", 
     <<" "," "," ","P","P"," ","R","e","f"," "," "," "," "," "," ",":"," ">>)
          \o lineIf(r, "length", 
     <<" "," "," ","L","e","n","g","t","h"," "," "," "," "," "," ",":"," ">>)
          \o lineIf(r, "notes", 
     <<" "," "," ","N","o","t","e","s"," "," "," "," "," "," "," ",":"," ">>)
          \o << "\n" >>
  IN directReply(
       <<"F","o","u","n","d"," ">> \o digitsOf(result.count) \o 
     <<" ","p","r","o","d","u","c","t","i","o","n"," ","r","e","c","o","r","d","(","s",")",":",
       "\n">>
         \o rule \o << "\n" >>
         \o forEach(result.data, item)
         \o rule \o << "\n" >>
         \o <<"T","o","t","a","l"," ","Q","t","y"," ",":"," ">> \o toLocaleString(sumOf(result.data, "quantity_kg")) \o 
     <<" ","k","g","\n">>)

\* 801-807, 885-891: each field with the characters of its name
essentialFields ==
  << [key |-> "order_number", name |-> <<"o","r","d","e","r","_","n","u","m","b","e","r">>],
     [key |-> "status", name |-> <<"s","t","a","t","u","s">>],
     [key |-> "customer_name", name |-> <<"c","u","s","t","o","m","e","r","_","n","a","m","e">>],
     [key |-> "sku", name |-> <<"s","k","u">>],
     [key |-> "material_status", name |-> 
     <<"m","a","t","e","r","i","a","l","_","s","t","a","t","u","s">>],
     [key |-> "po_number", name |-> <<"p","o","_","n","u","m","b","e","r">>],
     [key |-> "po_date", name |-> <<"p","o","_","d","a","t","e">>],
     [key |-> "expected_date", name |-> <<"e","x","p","e","c","t","e","d","_","d","a","t","e">>],
     [key |-> "quantity_kg", name |-> <<"q","u","a","n","t","i","t","y","_","k","g">>],
     [key |-> "material", name |-> <<"m","a","t","e","r","i","a","l">>],
     [key |-> "rate", name |-> <<"r","a","t","e">>],
     [key |-> "payment_terms", name |-> <<"p","a","y","m","e","n","t","_","t","e","r","m","s">>],
     [key |-> "delivery_address", name |-> 
     <<"d","e","l","i","v","e","r","y","_","a","d","d","r","e","s","s">>],
     [key |-> "total_dispatched", name |-> 
     <<"t","o","t","a","l","_","d","i","s","p","a","t","c","h","e","d">>],
     [key |-> "remaining_qty", name |-> <<"r","e","m","a","i","n","i","n","g","_","q","t","y">>],
     [key |-> "dispatch_count", name |-> <<"d","i","s","p","a","t","c","h","_","c","o","u","n","t">>],
     [key |-> "despatchno", name |-> <<"d","e","s","p","a","t","c","h","n","o">>],
     [key |-> "weightment_weight", name |-> 
     <<"w","e","i","g","h","t","m","e","n","t","_","w","e","i","g","h","t">>],
     [key |-> "actual_time", name |-> <<"a","c","t","u","a","l","_","t","i","m","e">>] >>
\* 808-812, 894-898: the lines of the essential fields the record has
RECURSIVE fieldLines(_, _)
fieldLines(r, k) ==
  IF k > Len(essentialFields) THEN << >>
  ELSE LET field == essentialFields[k].key
       IN (IF has(r, field) /\ (field \in NumericFields \/ r[field] # << >>)
             THEN <<" "," ">> \o essentialFields[k].name \o <<":"," ">> \o textOf(r, field) \o << "\n" >>
             ELSE << >>)
            \o fieldLines(r, k + 1)
\* 798-815
formatSingle(result) ==
  
     <<"\n","\n","[","S","Y","S","T","E","M",":"," ","F","o","u","n","d"," ","1"," ","r","e","c",
       "o","r","d",".","\n","D","A","T","A",":","\n">> \o fieldLines(result.data[1], 1)
    \o 
     <<"P","r","e","s","e","n","t"," ","t","h","i","s"," ","d","a","t","a"," ","a","s"," ","p","l",
       "a","i","n"," ","t","e","x","t",","," ","n","o"," ","m","a","r","k","d","o","w","n",","," ",
       "n","o"," ","e","m","o","j","i","s",".","]">>

\* 821
isOrderList(result) == result.data # << >> /\ has(result.data[1], "order_number")
\* 823-862
formatOrders(result) ==
  LET item(r, i) ==
        digitsOf(i) \o <<"."," ">> \o firstOf(r, << "order_number" >>, <<"N","/","A">>)
          \o (IF truthy(r, "customer_name") THEN <<" ","|"," ">> \o r.customer_name ELSE << >>)
          \o << "\n" >>
          \o lineIf(r, "sku", <<" "," "," ","S","K","U"," "," "," "," "," "," ",":"," ">>)
          \o lineIf(r, "material", <<" "," "," ","M","a","t","e","r","i","a","l"," ",":"," ">>)
          \o qtyLine(r, "quantity_kg", <<" "," "," ","O","r","d","e","r","e","d"," "," ",":"," ">>, <<" ","k","g">>)
          \o qtyLine(r, "total_dispatched", 
     <<" "," "," ","D","i","s","p","a","t","c","h","e","d",":"," ">>, <<" ","k","g">>)
          \o qtyLine(r, "remaining_qty", 
     <<" "," "," ","R","e","m","a","i","n","i","n","g"," ",":"," ">>, <<" ","k","g">>)
          \o lineIf(r, "status", <<" "," "," ","S","t","a","t","u","s"," "," "," ",":"," ">>)
          \o (IF firstOf(r, << "status" >>, << >>) # <<"c","o","m","p","l","e","t","e","d">>
                THEN lineIf(r, "material_status", 
     <<" "," "," ","M","a","t",".","S","t","a","t","u","s",":"," ">>)
                       \o lineIf(r, "expected_date", 
     <<" "," "," ","E","x","p","e","c","t","e","d"," "," ",":"," ">>)
                ELSE << >>)
          \o lineIf(r, "po_number", <<" "," "," ","P","O"," ","N","u","m","b","e","r"," ",":"," ">>)
          \o << "\n" >>
  IN directReply(
       <<"F","o","u","n","d"," ">> \o digitsOf(result.count) \o <<" ","o","r","d","e","r","(","s",")",":","\n">>
         \o rule \o << "\n" >>
         \o forEach(result.data, item)
         \o rule \o << "\n" >>
         \o <<"T","O","T","A","L","S",":","\n">>
         \o <<" "," ","T","o","t","a","l"," ","O","r","d","e","r","e","d"," "," "," ",":"," ">> \o toLocaleString(sumOf(result.data, "quantity_kg")) \o 
     <<" ","k","g","\n">>
         \o <<" "," ","T","o","t","a","l"," ","D","i","s","p","a","t","c","h","e","d",":"," ">> \o toLocaleString(sumOf(result.data, "total_dispatched")) \o 
     <<" ","k","g","\n">>
         \o <<" "," ","T","o","t","a","l"," ","R","e","m","a","i","n","i","n","g"," ",":"," ">> \o toLocaleString(sumOf(result.data, "remaining_qty")) \o 
     <<" ","k","g","\n">>)

\* 865
isSkuList(result) ==
  /\ result.data # << >>
  /\ has(result.data[1], "sku_code") \/ has(result.data[1], "sku_name") \/ has(result.data[1], "skuname")
  /\ ~has(result.data[1], "closing_qty")
\* 867-881
formatSkuList(result) ==
  LET item(r, i) ==
        digitsOf(i) \o <<"."," ">>
          \o firstOf(r, << "skuname", "sku_code", "sku_name", "name", "id" >>, <<"S","K","U"," ">> \o digitsOf(i))
          \o << "\n" >>
          \o lineIf(r, "description", 
     <<" "," "," ","D","e","s","c","r","i","p","t","i","o","n"," ",":"," ">>)
          \o lineIf(r, "unit", 
     <<" "," "," ","U","n","i","t"," "," "," "," "," "," "," "," ",":"," ">>)
          \o lineIf(r, "category", 
     <<" "," "," ","C","a","t","e","g","o","r","y"," "," "," "," ",":"," ">>)
          \o << "\n" >>
  IN directReply(<<"S","K","U"," ","L","i","s","t"," ","(">> \o digitsOf(result.count) \o 
     <<" ","i","t","e","m","(","s",")",")",":","\n">>
                   \o rule \o << "\n" >> \o forEach(result.data, item))

\* 884-902
formatFallback(result) ==
  LET item(r, i) == <<"R","e","c","o","r","d"," ">> \o digitsOf(i) \o <<":","\n">> \o fieldLines(r, 1) \o << "\n" >>
  IN <<"\n","\n","[","S","Y","S","T","E","M",":"," ","F","o","u","n","d"," ">> \o digitsOf(result.count) \o 
     <<" ","r","e","c","o","r","d","(","s",")",".","\n","D","A","T","A",":","\n">>
       \o forEach(result.data, item)
       \o 
     <<"P","r","e","s","e","n","t"," ","t","h","i","s"," ","d","a","t","a"," ","a","s"," ","p","l",
       "a","i","n"," ","t","e","x","t",","," ","n","o"," ","m","a","r","k","d","o","w","n",","," ",
       "n","o"," ","e","m","o","j","i","s",".","]">>

\* a variant that tests for a single record before the stock and production shapes
branchOfSingleFirst(result) ==
  IF ~result.success THEN "failure"
  ELSE IF result.count = 0 THEN "empty"
  ELSE IF result.count = 1 THEN "single"
  ELSE IF isStockResult(result) THEN "stock"
  ELSE IF isProductionResult(result) THEN "production"
  ELSE IF isOrderList(result) THEN "orders"
  ELSE IF isSkuList(result) THEN "skus"
  ELSE "fallback"
\* the branch of formatResultForAI a result takes: the first whose test holds
\* (690, 694, 712, 756, 798, 823, 867, 884)
branchOf(result) ==
  IF ~result.success THEN "failure"
  ELSE IF result.count = 0 THEN "empty"
  ELSE IF isStockResult(result) THEN "stock"
  ELSE IF isProductionResult(result) THEN "production"
  ELSE IF result.count = 1 THEN "single"
  ELSE IF isOrderList(result) THEN "orders"
  ELSE IF isSkuList(result) THEN "skus"
  ELSE "fallback"
\* formatResultForAI(result)
formatResultForAI(result) ==
  CASE branchOf(result) = "failure" -> databaseError(result)
    [] branchOf(result) = "empty" -> noDataFound
    [] branchOf(result) = "stock" -> formatStock(result)
    [] branchOf(result) = "production" -> formatProduction(result)
    [] branchOf(result) = "single" -> formatSingle(result)
    [] branchOf(result) = "orders" -> formatOrders(result)
    [] branchOf(result) = "skus" -> formatSkuList(result)
    [] OTHER -> formatFallback(result)

(***************************************************************************)
(* queryFromNaturalLanguage (sqlAgent.js 165-604).                         *)
(***************************************************************************)
VARIABLES
  pc,                \* where the request stands: "idle", a handler's await, "done"
  userQuestion,      \* the question of the request
  marketingPersons,  \* the scope argument of the request
  path,              \* the handlers the request has entered
  barPending,        \* bar flags whose fetchBarTotals has not resolved
  barTotals,         \* the sums each resolved fetchBarTotals returned, with its bar flag
  wordIdx,           \* findCustomerInQuestion: index of the next word to try
  customerMatch,     \* findCustomerInQuestion: its result, null for no match
  sqlQuery,          \* the synthesized statement after clean-up
  dbCalls,           \* the statements issued for this request
  aiRequests,        \* the prompts sent to the generation backend for this request
  outcome,           \* how queryFromNaturalLanguage ended, null while it runs
  caller,            \* the caller of the agent for this request, "none" before it
  contextMessage,    \* the caller's context for the generation backend
  chatRequests,      \* the messages the caller sent to the generation backend
  reply,             \* what the caller returns to the end user, null before
  given,             \* a result handed to formatResultForAI, as it was built
  argument,          \* that result object, as the calls of the formatter leave it
  outputs,           \* what the successive calls of the formatter returned
  order,             \* getOrderStatus: the order row found, with its dispatches
  dispatchIdx,       \* getDispatchDetails: the dispatch the loop is at
  dispatchInfo,      \* getDispatchDetails: the details and the total so far
  dispatchFailed,    \* getDispatchDetails: a statement failed and the catch block ran
  orderResponse,     \* what getOrderStatus returns, null before
  inFlight,          \* Promise.all: the statements that have not ended
  settled,           \* Promise.all: the statements that have ended, each with its result
  queue,             \* QueueStore: the items of message_queue.json, in their order
  isProcessingQueue, \* part_005 65
  loops,             \* the executions of processQueue that are past line 900 and have not ended
  timers,            \* the number of timers set with setTimeout(processQueue, ...)
  queueResolvers,    \* part_005 68: the ids that have a resolver
  messages,          \* for each id: its promise, its calls of sendMessage, its removal
  ready,             \* the features that have a session that is connected and may send
  lastRound,         \* what the last execution of processQueue left at its end
  now,               \* Date.now() of the WhatsApp server, in milliseconds since its start
  sessionUsage,      \* part_005 71: the usage of the sessions that have one
  online,            \* the sessions that are connected and logged in
  rateLoop,          \* the execution of processQueue, with the job and the session it took
  sent,              \* for each session: its last two successful sends of rate-limited messages
  flagNow,           \* Date.now() of the flag message server, in milliseconds
  flagSessions,      \* part_003 126: for each session, whether it is logged in with a client
                     \* and whether the store has the flag enabled for it
  flagMessageQueue,  \* part_003 142: the jobs waiting, by their numbers
  isFlagQueueProcessing, \* part_003 144
  flagLoop,          \* the execution of processFlagMessageQueue at its await
  sessionRateLimits, \* part_003 139
  flagJobs,          \* for each job accepted: its promise and how it was handed to a client
  flagSent,          \* for each session: its last two successful flag-message sends
  chatHistory,       \* aiHelper.js 58: for each user the messages kept, each with its role and
                     \* the number of the call it came from
  chatCalls,         \* the calls of getAIResponse that stand at an await
  chatCount,         \* the number of calls made
  chatSent,          \* for each call that reached the backend: the last message of its list
  storeSessions,     \* sessionStore.js 5: the sessions of sessions.json
  storeClock,        \* the number of calls on the store, which serves as the time of day
  storeReturned      \* what the last call of updateAssignments returned

\* the variables of the caller, and those outside a request
callerVars == << caller, contextMessage, chatRequests, reply >>
dispatchVars == << order, dispatchIdx, dispatchInfo, dispatchFailed, orderResponse >>
mergeVars == << inFlight, settled >>
queueVars == << queue, isProcessingQueue, loops, timers, queueResolvers, messages, ready,
               lastRound >>
rateVars == << now, sessionUsage, online, rateLoop, sent >>
flagVars == << flagNow, flagSessions, flagMessageQueue, isFlagQueueProcessing, flagLoop,
              sessionRateLimits, flagJobs, flagSent >>
chatVars == << chatHistory, chatCalls, chatCount, chatSent >>
storeVars == << storeSessions, storeClock, storeReturned >>
laterVars == << rateVars, flagVars, chatVars, storeVars >>
asideVars == << mergeVars, queueVars, laterVars >>

\* the queue and its processor after the start of the server with an empty store
QueueIdle ==
  /\ queue = << >>
  /\ isProcessingQueue = FALSE
  /\ loops = << >>
  /\ timers = 0
  /\ queueResolvers = {}
  /\ messages = << >>
  /\ ready = {}
  /\ lastRound = [ended |-> FALSE, skipped |-> {}, untried |-> {}, refused |-> FALSE]
\* the rate limiter before the first message: no session has a usage yet
RateIdle ==
  /\ now = 0
  /\ sessionUsage = << >>
  /\ online = {}
  /\ rateLoop = [at |-> "idle", feature |-> "", session |-> ""]
  /\ sent = << >>

\* the flag message server after its start: no session is logged in, no flag is enabled
FlagIdle ==
  /\ flagNow = 0
  /\ flagSessions = [s \in {"w1", "w2"} |-> [loggedIn |-> FALSE, enabled |-> FALSE]]
  /\ flagMessageQueue = << >>
  /\ isFlagQueueProcessing = FALSE
  /\ flagLoop = [at |-> "none", job |-> 0, session |-> "", wakeAt |-> 0]
  /\ sessionRateLimits = << >>
  /\ flagJobs = << >>
  /\ flagSent = << >>

\* the XMPP AI helper after its start: chatHistory = new Map()
ChatIdle ==
  /\ chatHistory = << >>
  /\ chatCalls = {}
  /\ chatCount = 0
  /\ chatSent = << >>

\* SessionStore.init (sessionStore.js 9-14): sessions.json with no session
StoreIdle ==
  /\ storeSessions = << >>
  /\ storeClock = 0
  /\ storeReturned = "nothing"

LaterIdle == RateIdle /\ FlagIdle /\ ChatIdle /\ StoreIdle

otherVars == << given, argument, outputs, dispatchVars, asideVars >>
vars == << pc, userQuestion, marketingPersons, path, barPending, barTotals, wordIdx,
           customerMatch, sqlQuery, dbCalls, aiRequests, outcome, callerVars, otherVars >>
\* the variables of the SQL agent, of its callers and of the message queue
baseVars ==
  << pc, userQuestion, marketingPersons, path, barPending, barTotals, wordIdx, customerMatch,
     sqlQuery, dbCalls, aiRequests, outcome, callerVars, given, argument, outputs, dispatchVars,
     mergeVars, queueVars >>

\* sqlAgent.js 165: marketingPersons = null, the default of an absent argument
defaultNull(mp) == IF mp = undefined THEN null ELSE mp
\* sqlAgent.js 168-173
mpArray(mp) ==
  IF mp = null \/ mp = undefined THEN << >>
  ELSE IF mp.t = "array" THEN mp.v
  ELSE IF mp.v = << >> THEN << >>
  ELSE << mp.v >>
hasFilter(mp) == Len(mpArray(mp)) > 0

\* a variant without the catch block: the error leaves queryFromNaturalLanguage
queryCatchRethrows(message) == Throw(message)

\* the catch block of queryFromNaturalLanguage (595-603)
queryCatch(message) ==
  Return([success |-> FALSE, error |-> JsString(message), data |-> << >>, count |-> 0])

\* an await of executeQuery calls: the first rejection, if any, is thrown on
Rejected(calls) == {c \in calls : c.result.kind = "throw"}

\* variants of the decision list with two tests in the other order
handlerOfPPFirst(q) ==
  IF ppnoMatch(q) # null THEN "pp"
  ELSE IF hasBlackBar(q) \/ hasBrightBar(q) \/ isGrandTotal(q) THEN "bartype"
  ELSE IF isProductionQuery(q) THEN "production"
  ELSE IF isStockQuery(q) THEN "stock"
  ELSE "synthesis"
handlerOfProductionFirst(q) ==
  IF hasBlackBar(q) \/ hasBrightBar(q) \/ isGrandTotal(q) THEN "bartype"
  ELSE IF isProductionQuery(q) THEN "production"
  ELSE IF ppnoMatch(q) # null THEN "pp"
  ELSE IF isStockQuery(q) THEN "stock"
  ELSE "synthesis"
handlerOfStockFirst(q) ==
  IF hasBlackBar(q) \/ hasBrightBar(q) \/ isGrandTotal(q) THEN "bartype"
  ELSE IF ppnoMatch(q) # null THEN "pp"
  ELSE IF isStockQuery(q) THEN "stock"
  ELSE IF isProductionQuery(q) THEN "production"
  ELSE "synthesis"

\* the decision list (185, 267, 318, 390): the first handler whose test matches
handlerOf(q) ==
  IF hasBlackBar(q) \/ hasBrightBar(q) \/ isGrandTotal(q) THEN "bartype"
  ELSE IF ppnoMatch(q) # null THEN "pp"
  ELSE IF isProductionQuery(q) THEN "production"
  ELSE IF isStockQuery(q) THEN "stock"
  ELSE "synthesis"

\* 213, 239: the bar flags to total
barFlags(q) ==
  IF isGrandTotal(q) \/ hasBoth(q) THEN {1, 0}
  ELSE IF hasBlackBar(q) THEN {1} ELSE {0}

\* 564-574: what the response of the backend makes the handler throw, or the content
responseOf(resp) ==
  CASE resp.kind = "rejected" -> Throw(resp.message)
    [] resp.kind = "http_error" -> Throw(<<"A","I"," ","A","P","I"," ","e","r","r","o","r",":"," ">> \o resp.status \o <<" ","-"," ">> \o resp.body)
    [] resp.kind = "no_choices" -> Throw(
     <<"N","o"," ","S","Q","L"," ","q","u","e","r","y"," ","g","e","n","e","r","a","t","e","d">>)
    [] resp.kind = "content" ->
         IF trim(resp.content) = << >> THEN Throw(
     <<"N","o"," ","S","Q","L"," ","q","u","e","r","y"," ","g","e","n","e","r","a","t","e","d">>)
         ELSE Return(cleanSQL(resp.content))

\* the response handling, computed once per response
responses == {[of |-> resp, is |-> responseOf(resp)] : resp \in BackendResponses}
response(resp) == (CHOOSE e \in responses : e.of = resp).is

\* the SQL agent, its callers and the message queue at rest
AgentIdle ==
  /\ pc = "idle"
  /\ userQuestion = << >>
  /\ marketingPersons = null
  /\ path = {}
  /\ barPending = {}
  /\ barTotals = {}
  /\ wordIdx = 1
  /\ customerMatch = null
  /\ sqlQuery = << >>
  /\ dbCalls = {}
  /\ aiRequests = {}
  /\ outcome = null
  /\ caller = "none"
  /\ contextMessage = << >>
  /\ chatRequests = {}
  /\ reply = null
  /\ given = null
  /\ argument = null
  /\ outputs = << >>
  /\ order = null
  /\ dispatchIdx = 0
  /\ dispatchInfo = null
  /\ dispatchFailed = FALSE
  /\ orderResponse = null
  /\ inFlight = {}
  /\ settled = {}
  /\ QueueIdle

Init ==
  /\ pc = "idle"
  /\ userQuestion = << >>
  /\ marketingPersons = null
  /\ path = {}
  /\ barPending = {}
  /\ barTotals = {}
  /\ wordIdx = 1
  /\ customerMatch = null
  /\ sqlQuery = << >>
  /\ dbCalls = {}
  /\ aiRequests = {}
  /\ outcome = null
  /\ caller = "none"
  /\ contextMessage = << >>
  /\ chatRequests = {}
  /\ reply = null
  /\ given = null
  /\ argument = null
  /\ outputs = << >>
  /\ order = null
  /\ dispatchIdx = 0
  /\ dispatchInfo = null
  /\ dispatchFailed = FALSE
  /\ orderResponse = null
  /\ inFlight = {}
  /\ settled = {}
  /\ QueueIdle
  /\ LaterIdle

\* a call queryFromNaturalLanguage(q, apiConfig, mp), up to its first await
Request(q, mp) ==
  /\ pc = "idle"
  /\ UNCHANGED << contextMessage, chatRequests, reply, otherVars >>
  /\ userQuestion' = q
  /\ marketingPersons' = defaultNull(mp)
  /\ LET handler == handlerOf(q)
     IN /\ path' = {handler}
        /\ pc' = CASE handler = "production" -> "production_customer"
                   [] handler = "synthesis" -> "schema"
                   [] OTHER -> handler
        /\ barPending' = IF handler = "bartype" THEN barFlags(q) ELSE {}
  /\ UNCHANGED << barTotals, wordIdx, customerMatch, sqlQuery, dbCalls, aiRequests, outcome >>

\* result.error of a result of executeQuery: a success result has no such property
errorOf(result) == IF "error" \in DOMAIN result THEN result.error ELSE undefined

\* rows.reduce((acc, r) => acc + parseFloat(r.closing_qty || 0), 0)
RECURSIVE sumQty(_)
sumQty(rows) == IF rows = << >> THEN 0 ELSE Head(rows).closing_qty + sumQty(Tail(rows))

\* the value fetchBarTotals(barFlag) resolves with (204-208)
barTotalsOf(barFlag, regRes, rejRes, quarRes) ==
  [barFlag |-> barFlag, reg |-> sumQty(regRes.rows), rej |-> sumQty(rejRes.rows),
   quar |-> sumQty(quarRes.rows)]

\* a variant whose total leaves the quarantine stock out
barSectionNoQuarantine(t) == [reg |-> t.reg, rej |-> t.rej, quar |-> t.quar, total |-> t.reg + t.rej]
\* the summary of one bar type: its three sums and their total
barSection(t) == [reg |-> t.reg, rej |-> t.rej, quar |-> t.quar, total |-> t.reg + t.rej + t.quar]
TotalsOf(totals, barFlag) == CHOOSE t \in totals : t.barFlag = barFlag

\* the text `out` (211-252), as the numbers it prints under each heading
barReply(q, totals) ==
  IF isGrandTotal(q) \/ hasBoth(q)
    THEN [title |-> 
     <<"T","o","t","a","l"," ","S","t","o","c","k"," ","S","u","m","m","a","r","y",":">>,
          black |-> barSection(TotalsOf(totals, 1)),
          bright |-> barSection(TotalsOf(totals, 0)),
          grandTotal |-> barSection(TotalsOf(totals, 1)).total + barSection(TotalsOf(totals, 0)).total]
    ELSE [title |-> IF hasBlackBar(q) THEN 
     <<"B","l","a","c","k"," ","B","a","r"," ","S","t","o","c","k"," ","S","u","m","m","a","r","y",
       ":">> ELSE 
     <<"B","r","i","g","h","t"," ","B","a","r"," ","S","t","o","c","k"," ","S","u","m","m","a","r",
       "y",":">>,
          bar |-> barSection(TotalsOf(totals, IF hasBlackBar(q) THEN 1 ELSE 0))]

\* 254-261
barResult(q, totals) ==
  [success |-> TRUE, query |-> <<"b","a","r","t","y","p","e","-","s","t","o","c","k">>, data |-> << >>, count |-> 0, error |-> null,
   _directReply |-> barReply(q, totals)]

\* how the three statements of one fetchBarTotals end at the driver: all return their rows,
\* the first alone fails, or all three fail
BarDriverOutcomes == {<< TRUE, TRUE, TRUE >>, << FALSE, TRUE, TRUE >>, << FALSE, FALSE, FALSE >>}

\* one fetchBarTotals(barFlag) resolves: its three statements have ended (189-209);
\* the handler returns when the last of them has (216, 242, 254)
FetchBarTotals(barFlag, okReg, okRej, okQuar) ==
  /\ pc = "bartype"
  /\ UNCHANGED << callerVars, otherVars >>
  /\ barFlag \in barPending
  /\ LET dReg == IF okReg THEN DriverOk(barRows("regular", barFlag)) ELSE driverError
         dRej == IF okRej THEN DriverOk(barRows("rejected", barFlag)) ELSE driverError
         dQuar == IF okQuar THEN DriverOk(barRows("quarantine", barFlag)) ELSE driverError
         reg == ExecCall("bartype", barSQL.regular, << barFlag >>, dReg)
         rej == ExecCall("bartype", barSQL.rejected, << barFlag >>, dRej)
         quar == ExecCall("bartype", barSQL.quarantine, << barFlag >>, dQuar)
         thrown == Rejected({reg, rej, quar})
         totals == barTotals \cup
                     {barTotalsOf(barFlag, reg.result.value, rej.result.value, quar.result.value)}
     IN /\ dbCalls' = dbCalls \cup {reg, rej, quar}
        /\ IF thrown # {}
             THEN /\ outcome' = queryCatch((CHOOSE c \in thrown : TRUE).result.message)
                  /\ pc' = "done"
                  /\ UNCHANGED << barPending, barTotals >>
             ELSE /\ barTotals' = totals
                  /\ barPending' = barPending \ {barFlag}
                  /\ IF barPending \ {barFlag} = {}
                       THEN pc' = "done" /\ outcome' = Return(barResult(userQuestion, totals))
                       ELSE UNCHANGED << pc, outcome >>
  /\ UNCHANGED << userQuestion, marketingPersons, path, wordIdx, customerMatch, sqlQuery, aiRequests >>

\* 297
notFoundReply(ppno) ==
  <<"P","r","o","d","u","c","t","i","o","n"," ","p","l","a","n"," ">> \o ppno \o 
     <<" ","n","o","t"," ","f","o","u","n","d",".","\n","P","l","e","a","s","e"," ","c","h","e","c",
       "k"," ","t","h","e"," ","P","P"," ","n","u","m","b","e","r"," ","a","n","d"," ","t","r","y",
       " ","a","g","a","i","n",".">>

\* what the PP number handler returns for the result of its statement (290-310)
ppResultOf(q, ppno, ppResult) ==
  IF ~ppResult.success \/ ppResult.count = 0
    THEN [success |-> TRUE, query |-> ppSQL, data |-> << >>, count |-> 0, error |-> null,
          _directReply |-> notFoundReply(ppno)]
    ELSE [success |-> ppResult.success, query |-> ppSQL, data |-> ppResult.rows,
          count |-> ppResult.count, error |-> errorOf(ppResult),
          _isProductionQuery |-> TRUE, _statusContext |-> q, _ppLookup |-> TRUE]

\* the PP number handler (267-311): its statement has ended
PPLookup(driver) ==
  /\ pc = "pp"
  /\ UNCHANGED << callerVars, otherVars >>
  /\ LET ppno == ppnoOf(ppnoMatch(userQuestion).v)
         call == ExecCall("pp", ppSQL, << ppno, ppnoLikeOf(ppno), ppno, ppnoLikeOf(ppno) >>, driver)
     IN /\ dbCalls' = dbCalls \cup {call}
        /\ outcome' = IF call.result.kind = "throw" THEN queryCatch(call.result.message)
                      ELSE Return(ppResultOf(userQuestion, ppno, call.result.value))
  /\ pc' = "done"
  /\ UNCHANGED << userQuestion, marketingPersons, path, barPending, barTotals, wordIdx,
                  customerMatch, sqlQuery, aiRequests >>

\* lookupCustomerIds(keyword) (116-128): the rows, or [] when the driver fails
lookupCustomerIds(driver) == IF driver.ok THEN driver.rows ELSE << >>

\* the prompt of the request to the generation backend (478, 547), by its variable parts
promptOf(q, mp, match) ==
  [marketingPersonFilter |-> marketingPersonFilter(mpArray(mp)),
   customerIdFilter |-> customerIdFilter(match),
   userPrompt |-> 
     <<"G","e","n","e","r","a","t","e"," ","S","Q","L"," ","q","u","e","r","y"," ","f","o","r",":",
       " ">> \o q]

\* findCustomerInQuestion has returned match: the production handler goes on to its
\* statement (338), synthesis builds the prompt and calls the backend (454-562)
AfterCustomer(match) ==
  /\ customerMatch' = match
  /\ IF pc = "production_customer"
       THEN pc' = "production_query" /\ UNCHANGED aiRequests
       ELSE /\ pc' = "fetch"
            /\ aiRequests' = aiRequests \cup {promptOf(userQuestion, marketingPersons, match)}

\* findCustomerInQuestion (147-161): no word is left to try, it returns null
NoCustomer ==
  /\ pc \in {"production_customer", "synthesis_customer"}
  /\ UNCHANGED << callerVars, otherVars >>
  /\ \A k \in wordIdx..Len(questionWords(userQuestion)) : ~IsCandidate(questionWords(userQuestion)[k])
  /\ AfterCustomer(null)
  /\ UNCHANGED << userQuestion, marketingPersons, path, barPending, barTotals, wordIdx,
                  sqlQuery, dbCalls, outcome >>

\* findCustomerInQuestion (147-161): the lookup of the next candidate word has ended
LookupCustomer(driverOk) ==
  /\ pc \in {"production_customer", "synthesis_customer"}
  /\ UNCHANGED << callerVars, otherVars >>
  /\ \E k \in wordIdx..Len(questionWords(userQuestion)) :
       /\ IsCandidate(questionWords(userQuestion)[k])
       /\ \A j \in wordIdx..(k - 1) : ~IsCandidate(questionWords(userQuestion)[j])
       /\ LET keyword == clean(questionWords(userQuestion)[k])
              driver == IF driverOk THEN DriverOk(customerRows(keyword)) ELSE driverError
              customers == lookupCustomerIds(driver)
          IN /\ dbCalls' = dbCalls \cup
                  {Call("lookupCustomerIds", IF pc = "production_customer" THEN "production" ELSE "synthesis",
                        lookupSQL, << <<"%">> \o keyword \o <<"%">> >>, driver, Return(customers))}
             /\ IF Len(customers) > 0
                  THEN /\ AfterCustomer([keyword |-> keyword, customers |-> customers])
                       /\ UNCHANGED wordIdx
                  ELSE /\ wordIdx' = k + 1
                       /\ UNCHANGED << pc, customerMatch, aiRequests >>
  /\ UNCHANGED << userQuestion, marketingPersons, path, barPending, barTotals, sqlQuery, outcome >>

\* what the production handler returns for the result of its statement (354-362)
prodResultOf(q, sql, prodResult) ==
  [success |-> prodResult.success, query |-> sql, data |-> prodResult.rows,
   count |-> prodResult.count, error |-> errorOf(prodResult),
   _isProductionQuery |-> TRUE, _statusContext |-> q]

\* the production handler (318-363): its statement has ended
ProductionQuery(driver) ==
  /\ pc = "production_query"
  /\ UNCHANGED << callerVars, otherVars >>
  /\ LET sql == prodSQL(userQuestion, customerMatch)
         call == ExecCall("production", sql, << >>, driver)
     IN /\ dbCalls' = dbCalls \cup {call}
        /\ outcome' = IF call.result.kind = "throw" THEN queryCatch(call.result.message)
                      ELSE Return(prodResultOf(userQuestion, sql, call.result.value))
  /\ pc' = "done"
  /\ UNCHANGED << userQuestion, marketingPersons, path, barPending, barTotals, wordIdx,
                  customerMatch, sqlQuery, aiRequests >>

\* rows.map(r => ({ ...r, _stockSource: source }))
tag(rows, source) == [k \in 1..Len(rows) |-> rows[k] @@ ("_stockSource" :> source)]

\* what the SKU stock handler returns for the results of its statements (412-426)
stockResultOf(regRes, rejRes, quarRes) ==
  LET combined == tag(regRes.rows, "regular") \o tag(rejRes.rows, "rejected")
                    \o tag(quarRes.rows, "quarantine")
  IN [success |-> TRUE, query |-> <<"c","o","m","b","i","n","e","d","-","s","t","o","c","k">>, data |-> combined, count |-> Len(combined),
      error |-> null, _isStockQuery |-> TRUE]

\* the SKU stock handler (390-427): its three statements have ended
StockLookup(okReg, okRej, okQuar) ==
  /\ pc = "stock"
  /\ UNCHANGED << callerVars, otherVars >>
  /\ LET skuKeyword == stripped(userQuestion)
         likeParam == << <<"%">> \o skuKeyword \o <<"%">> >>
         dReg == IF okReg THEN DriverOk(stockRows("regular", skuKeyword)) ELSE driverError
         dRej == IF okRej THEN DriverOk(stockRows("rejected", skuKeyword)) ELSE driverError
         dQuar == IF okQuar THEN DriverOk(stockRows("quarantine", skuKeyword)) ELSE driverError
         reg == ExecCall("stock", stockSQL.regular, likeParam, dReg)
         rej == ExecCall("stock", stockSQL.rejected, likeParam, dRej)
         quar == ExecCall("stock", stockSQL.quarantine, likeParam, dQuar)
         thrown == Rejected({reg, rej, quar})
     IN /\ dbCalls' = dbCalls \cup {reg, rej, quar}
        /\ outcome' = IF thrown # {} THEN queryCatch((CHOOSE c \in thrown : TRUE).result.message)
                      ELSE Return(stockResultOf(reg.result.value, rej.result.value, quar.result.value))
  /\ pc' = "done"
  /\ UNCHANGED << userQuestion, marketingPersons, path, barPending, barTotals, wordIdx,
                  customerMatch, sqlQuery, aiRequests >>

\* a variant that returns what it has when a DESCRIBE fails
getDatabaseSchemaPartial(failAt) == [database |-> 
     <<"t","h","i","r","u","p","a","t","h","y","b","r","i","g","h","t">>]

\* getDatabaseSchema() (29-72), where the DESCRIBE of table number failAt fails
\* (0: none does): the schema, or null from its catch block
getDatabaseSchema(failAt) == IF failAt = 0 THEN [database |-> 
     <<"t","h","i","r","u","p","a","t","h","y","b","r","i","g","h","t">>] ELSE null

\* the DESCRIBE statements getDatabaseSchema issued before it returned
describeCalls(failAt) ==
  {Call("getDatabaseSchema", "synthesis", describeSQL(tables[k]), << >>,
        IF k = failAt THEN driverError ELSE DriverOk(<< >>), undefined) :
     k \in 1..(IF failAt = 0 THEN Len(tables) ELSE failAt)}

\* 430-433: what follows the schema fetch when it returned nothing
schemaMissing == Throw(
     <<"F","a","i","l","e","d"," ","t","o"," ","g","e","t"," ","d","a","t","a","b","a","s","e"," ",
       "s","c","h","e","m","a">>)

\* synthesis: the schema fetch has ended (430-436)
SchemaFetched(failAt) ==
  /\ pc = "schema"
  /\ UNCHANGED << callerVars, otherVars >>
  /\ dbCalls' = dbCalls \cup describeCalls(failAt)
  /\ IF getDatabaseSchema(failAt) = null
       THEN /\ outcome' = queryCatch(schemaMissing.message)
            /\ pc' = "done"
       ELSE /\ pc' = "synthesis_customer"
            /\ UNCHANGED outcome
  /\ UNCHANGED << userQuestion, marketingPersons, path, barPending, barTotals, wordIdx,
                  customerMatch, sqlQuery, aiRequests >>

\* synthesis: the call of the generation backend has ended (550-582)
BackendResponse(resp) ==
  /\ pc = "fetch"
  /\ UNCHANGED << callerVars, otherVars >>
  /\ IF response(resp).kind = "throw"
       THEN /\ outcome' = queryCatch(response(resp).message)
            /\ pc' = "done"
            /\ UNCHANGED sqlQuery
       ELSE /\ sqlQuery' = response(resp).value
            /\ pc' = "execute"
            /\ UNCHANGED outcome
  /\ UNCHANGED << userQuestion, marketingPersons, path, barPending, barTotals, wordIdx,
                  customerMatch, dbCalls, aiRequests >>

\* what synthesis returns for the result of the generated statement (587-593)
synthResultOf(sql, result) ==
  [success |-> result.success, query |-> sql, data |-> result.rows, count |-> result.count,
   error |-> errorOf(result)]

\* synthesis: the generated statement has ended (585-593)
ExecuteSynthesized(driver) ==
  /\ pc = "execute"
  /\ UNCHANGED << callerVars, otherVars >>
  /\ LET call == ExecCall("synthesis", sqlQuery, << >>, driver)
     IN /\ dbCalls' = dbCalls \cup {call}
        /\ outcome' = IF call.result.kind = "throw" THEN queryCatch(call.result.message)
                      ELSE Return(synthResultOf(sqlQuery, call.result.value))
  /\ pc' = "done"
  /\ UNCHANGED << userQuestion, marketingPersons, path, barPending, barTotals, wordIdx,
                  customerMatch, sqlQuery, aiRequests >>

(***************************************************************************)
(* The callers of the agent: getAIResponse of the XMPP bot (aiHelper.js    *)
(* 70-268) and of the two WhatsApp servers (unnamed/part_003 310-447,      *)
(* unnamed/part_005 277-447).                                              *)
(***************************************************************************)
Callers == {"aiHelper", "part_003", "part_005"}
\* what MarketingPersonStore.getMarketingPersons returns (marketingPersonStore.js 41-49):
\* [] for a user without assignment
Assignments == {<< >>, << <<"A","l","i","c","e">> >>, << <<"A","l","i","c","e">>, <<"O","'","N","e","i","l">> >>}
\* the scope argument a caller passes: aiHelper.js 139 passes null for an empty list;
\* part_003 375 and part_005 342 pass none
scopeArgument(c, assigned) ==
  IF c = "aiHelper" THEN (IF Len(assigned) > 0 THEN JsArray(assigned) ELSE null)
  ELSE undefined
ScopesOf(c) == {scopeArgument(c, assigned) : assigned \in Assignments}

\* a caller receives a message and calls queryFromNaturalLanguage
getAIResponse(c, q, mp) ==
  /\ Request(q, mp)
  /\ caller' = c

\* aiHelper.js 164, part_003 383, part_005 350
noDataContext ==
  
     <<"\n","\n","[","S","Y","S","T","E","M",":"," ","N","o"," ","d","a","t","a"," ","f","o","u",
       "n","d","."," ","T","h","e"," ","d","a","t","a","b","a","s","e"," ","q","u","e","r","y"," ",
       "e","x","e","c","u","t","e","d"," ","s","u","c","c","e","s","s","f","u","l","l","y"," ","b",
       "u","t"," ","r","e","t","u","r","n","e","d"," ","n","o"," ","r","e","s","u","l","t","s",".",
       " ","H","a","v","e"," ","a"," ","n","o","r","m","a","l"," ","c","o","n","v","e","r","s","a",
       "t","i","o","n"," ","a","n","d"," ","h","e","l","p"," ","t","h","e"," ","c","u","s","t","o",
       "m","e","r",".","]">>
\* aiHelper.js 141-169, part_003 377-388, part_005 344-355
contextOf(sqlResult) ==
  IF sqlResult.success /\ sqlResult.count > 0 THEN formatResultForAI(sqlResult)
  ELSE IF sqlResult.success /\ sqlResult.count = 0 THEN noDataContext
  ELSE << >>

DirectReplyOpen == <<"[","D","I","R","E","C","T","_","R","E","P","L","Y",":","\n">>
\* contextMessage.match(/\[DIRECT_REPLY:\n([\s\S]*?)\]$/): the captured text, or null
directMatch(text) ==
  LET starts == {i \in 1..(Len(text) - Len(DirectReplyOpen)) : MatchAt(text, i, DirectReplyOpen)}
  IN IF starts = {} \/ text[Len(text)] # "]" THEN null
     ELSE JsString(SubSeq(text, SetMin(starts) + Len(DirectReplyOpen), Len(text) - 1))
\* aiHelper.js 148-161: the text returned without a generation call, or null
directTextOf(c, text) ==
  IF c = "aiHelper" /\ includes(text, <<"[","D","I","R","E","C","T","_","R","E","P","L","Y",":">>) /\ directMatch(text) # null
    THEN JsString(trim(directMatch(text).v))
    ELSE null

technicalDifficulties ==
  
     <<"S","o","r","r","y",","," ","I"," ","a","m"," ","e","x","p","e","r","i","e","n","c","i","n",
       "g"," ","t","e","c","h","n","i","c","a","l"," ","d","i","f","f","i","c","u","l","t","i","e",
       "s","."," ","P","l","e","a","s","e"," ","t","r","y"," ","a","g","a","i","n"," ","l","a","t",
       "e","r",".">>
couldNotGenerate == 
     <<"S","o","r","r","y",","," ","I"," ","c","o","u","l","d"," ","n","o","t"," ","g","e","n","e",
       "r","a","t","e"," ","a"," ","r","e","s","p","o","n","s","e",".">>

\* what the HTTP call of the caller to the generation backend ends with
ChatResponses ==
  {[kind |-> "rejected"], [kind |-> "http_error"], [kind |-> "no_choices"],
   [kind |-> "content", content |-> 
     <<"Y","o","u","r"," ","o","r","d","e","r"," ","O","R","D","-","1"," ","i","s"," ","p","e","n",
       "d","i","n","g",".">>]}

\* queryFromNaturalLanguage has returned: the caller builds the context and either
\* returns the ready-made reply or calls the generation backend
\* (aiHelper.js 141-242, part_003 377-455, part_005 344-425)
Respond ==
  /\ pc = "done"
  /\ IF outcome.kind = "throw"
       THEN /\ reply' = JsString(technicalDifficulties)
            /\ pc' = "replied"
            /\ UNCHANGED << contextMessage, chatRequests >>
       ELSE /\ contextMessage' = contextOf(outcome.value)
            /\ IF directTextOf(caller, contextOf(outcome.value)) # null
                 THEN /\ reply' = directTextOf(caller, contextOf(outcome.value))
                      /\ pc' = "replied"
                      /\ UNCHANGED chatRequests
                 ELSE /\ chatRequests' = chatRequests \cup {userQuestion \o contextOf(outcome.value)}
                      /\ pc' = "chat"
                      /\ UNCHANGED reply
  /\ UNCHANGED << userQuestion, marketingPersons, path, barPending, barTotals, wordIdx,
                  customerMatch, sqlQuery, dbCalls, aiRequests, outcome, caller, otherVars >>

\* the call of the generation backend has ended (aiHelper.js 244-267, part_003 457-478,
\* part_005 427-447)
ChatResponse(resp) ==
  /\ pc = "chat"
  /\ reply' = JsString(CASE resp.kind \in {"rejected", "http_error"} -> technicalDifficulties
                         [] resp.kind = "no_choices" -> couldNotGenerate
                         [] OTHER -> resp.content)
  /\ pc' = "replied"
  /\ UNCHANGED << userQuestion, marketingPersons, path, barPending, barTotals, wordIdx,
                  customerMatch, sqlQuery, dbCalls, aiRequests, outcome, caller, contextMessage,
                  chatRequests, otherVars >>

Next ==
  \/ pc = "idle" /\ \E c \in Callers, q \in Questions : \E mp \in ScopesOf(c) : getAIResponse(c, q, mp)
  \/ \E barFlag \in {1, 0}, ok \in BarDriverOutcomes : FetchBarTotals(barFlag, ok[1], ok[2], ok[3])
  \/ \E driver \in DriverResults(productionRow) : PPLookup(driver)
  \/ NoCustomer
  \/ \E driverOk \in BOOLEAN : LookupCustomer(driverOk)
  \/ \E driver \in DriverResults(productionRow) : ProductionQuery(driver)
  \/ \E okReg, okRej, okQuar \in BOOLEAN : StockLookup(okReg, okRej, okQuar)
  \/ \E failAt \in 0..Len(tables) : SchemaFetched(failAt)
  \/ \E resp \in BackendResponses : BackendResponse(resp)
  \/ \E driver \in DriverResults(orderRow) : ExecuteSynthesized(driver)
  \/ Respond
  \/ \E resp \in ChatResponses : ChatResponse(resp)

Spec == Init /\ [][Next]_vars

(***************************************************************************)
(* formatResultForAI on its own: a result is given, and the formatter is   *)
(* called on it again and again.                                           *)
(***************************************************************************)
MaxRows == 2
MaxCalls == 2

\* the row lists of up to n rows drawn from S
RowLists(S, n) == UNION {[1..k -> S] : k \in 1..n}
\* what executeQuery returns for the rows of a statement
okResult(rows) == executeQuery(ppSQL, DriverOk(rows)).value

\* rows of Database_production in each status
ProductionRows ==
  {[productionRow EXCEPT !.status = s] :
     s \in {<<"i","n","_","p","r","o","g","r","e","s","s">>, <<"p","e","n","d","i","n","g">>, <<"c","o","m","p","l","e","t","e","d">>, <<"c","a","n","c","e","l","l","e","d">>}}
\* the questions a production result is returned for
StatusContexts == {<<"p","r","o","d","u","c","t","i","o","n">>, 
     <<"c","o","m","p","l","e","t","e","d"," ","p","r","o","d","u","c","t","i","o","n">>, 
     <<"p","r","o","d","u","c","t","i","o","n"," ","c","a","n","c","e","l","l","e","d">>}
\* rows of other statements
orderRows ==
  << orderRow @@ [quantity_kg |-> 1000, total_dispatched |-> 300, remaining_qty |-> 700],
     [order_number |-> <<"O","R","D","-","2">>, status |-> <<"c","o","m","p","l","e","t","e","d">>, marketing_person |-> 
     <<"A","l","i","c","e">>,
      quantity_kg |-> 200, total_dispatched |-> 200, remaining_qty |-> 0] >>
skuRows ==
  << [sku_code |-> <<"E","N","1","A">>, description |-> 
     <<"F","r","e","e"," ","c","u","t","t","i","n","g"," ","s","t","e","e","l">>],
     [sku_code |-> <<"E","N","8">>, description |-> <<"C","a","r","b","o","n"," ","s","t","e","e","l">>] >>
stockRow == stockTables.regular[1]

\* the results queryFromNaturalLanguage builds, over these rows
FormatInputs ==
  {queryCatch(driverError.message).value, synthResultOf(ppSQL, okResult(<< >>)),
   barResult(<<"b","l","a","c","k"," ","b","a","r">>, {barTotalsOf(1, okResult(<< >>), okResult(<< >>), okResult(<< >>))}),
   ppResultOf(<<"P","p","-","2","6","0","2","-","1","5","9","5">>, <<"P","P","-","2","6","0","2","-","1","5","9","5">>, okResult(<< >>))}
    \cup {ppResultOf(<<"P","p","-","2","6","0","2","-","1","5","9","5">>, <<"P","P","-","2","6","0","2","-","1","5","9","5">>, okResult(rows)) :
            rows \in RowLists(ProductionRows, MaxRows)}
    \cup {prodResultOf(q, prodSQL(q, null), okResult(rows)) :
            q \in StatusContexts, rows \in RowLists(ProductionRows, MaxRows)}
    \cup {stockResultOf(okResult(reg), okResult(rej), okResult(<< >>)) :
            reg \in {<< >>, << stockRow >>}, rej \in {<< stockRow >>, << stockRow, stockTables.regular[2] >>}}
    \cup {synthResultOf(ppSQL, okResult(rows)) :
            rows \in {<< orderRow >>, orderRows, skuRows, mastercustomer, << stockRow >>,
                      << productionRow >>, << skuRows[1] >>, << stockRow, orderRow >>,
                      << orderRow, stockRow >>, << orderRow, productionRow >>,
                      << skuRows[1], productionRow >>, << productionRow, stockRow >>}}

\* a variant that counts the calls in the result
argumentAfterCounted(result) == [result EXCEPT !.count = @ + 1]
\* the result object after a call of the formatter: the code assigns neither to result
\* nor to its rows (698 and 819 alias result.data; filter and forEach only read)
argumentAfter(result) == result

FormatInit ==
  /\ pc = "format"
  /\ given \in FormatInputs
  /\ argument = given
  /\ outputs = << >>
  /\ userQuestion = << >>
  /\ marketingPersons = null
  /\ path = {}
  /\ barPending = {}
  /\ barTotals = {}
  /\ wordIdx = 1
  /\ customerMatch = null
  /\ sqlQuery = << >>
  /\ dbCalls = {}
  /\ aiRequests = {}
  /\ outcome = null
  /\ caller = "none"
  /\ contextMessage = << >>
  /\ chatRequests = {}
  /\ reply = null
  /\ order = null
  /\ dispatchIdx = 0
  /\ dispatchInfo = null
  /\ dispatchFailed = FALSE
  /\ orderResponse = null
  /\ inFlight = {}
  /\ settled = {}
  /\ QueueIdle
  /\ LaterIdle

\* one call formatResultForAI(argument)
Format ==
  /\ pc = "format"
  /\ Len(outputs) < MaxCalls
  /\ outputs' = Append(outputs, formatResultForAI(argument))
  /\ argument' = argumentAfter(argument)
  /\ UNCHANGED << pc, userQuestion, marketingPersons, path, barPending, barTotals, wordIdx,
                  customerMatch, sqlQuery, dbCalls, aiRequests, outcome, callerVars, given,
                  dispatchVars, asideVars >>

FormatNext == Format

FormatSpec == FormatInit /\ [][FormatNext]_vars

(***************************************************************************)
(* DatabaseHelper.getOrderStatus (unnamed/part_001 124-189) from the point *)
(* where the order row is found: getDispatchDetails (43-121) and           *)
(* formatOrderResponse (192-246).  An order is its row and, for each of    *)
(* its dispatches, the weights of the weightment rows of that dispatch.    *)
(***************************************************************************)
MaxDispatches == 2
MaxWeightments == 2

Weights == {100, 200}
\* the weightment rows one dispatch can have
WeightLists == UNION {[1..k -> Weights] : k \in 0..MaxWeightments}
\* the order rows: one with its material status set, and a smaller one where it is NULL
OrderRows ==
  { [order_number |-> <<"O","R","D","-","1">>, quantity_kg |-> 1000, expected_date |-> 
     <<"2","0","2","6","-","0","3","-","0","1">>,
     material_status |-> <<"M","a","t","e","r","i","a","l"," ","r","e","a","d","y">>],
    [order_number |-> <<"O","R","D","-","2">>, quantity_kg |-> 200, expected_date |-> 
     <<"2","0","2","6","-","0","3","-","0","1">>] }
Orders ==
  {r @@ [status |-> s, dispatches |-> d] :
     r \in OrderRows,
     s \in {<<"p","e","n","d","i","n","g">>, <<"i","n","_","p","r","o","g","r","e","s","s">>, <<"c","o","m","p","l","e","t","e","d">>},
     d \in UNION {[1..k -> WeightLists] : k \in 0..MaxDispatches}}

\* the catch block of getDispatchDetails (113-120)
dispatchCatch == [dispatches |-> << >>, totalDispatched |-> 0]
\* 91: weights.length > 0 ? parseFloat(weights[0].weightment_weight || 0) : 0
dispatchWeight(weights) == IF Len(weights) > 0 THEN weights[1] ELSE 0

\* a variant that asks for a remaining quantity of exactly 0
isFullyDispatchedExact(remainingQty) == remainingQty = 0
\* 236: response.isFullyDispatched = remainingQty <= 0
isFullyDispatched(remainingQty) == remainingQty <= 0

\* formatOrderResponse(order, dispatchInfo) (192-246)
formatOrderResponse(o, info) ==
  LET orderQty == o.quantity_kg
      remainingQty == orderQty - info.totalDispatched
      material == IF has(o, "material_status") THEN o.material_status ELSE null
      base == [found |-> TRUE, orderNumber |-> o.order_number, orderStatus |-> o.status,
                   orderQty |-> orderQty]
  IN IF o.status = <<"p","e","n","d","i","n","g">>
       THEN base @@ [message |-> 
     <<"O","r","d","e","r"," ","i","s"," ","p","e","n","d","i","n","g"," ","a","p","p","r","o","v",
       "a","l">>, showMaterialStatus |-> FALSE,
                     showExpectedDate |-> FALSE, showDispatch |-> FALSE]
     ELSE IF o.status = <<"i","n","_","p","r","o","g","r","e","s","s">>
       THEN base @@ [materialStatus |-> IF truthy(o, "material_status") THEN o.material_status
                                        ELSE 
     <<"N","o","t"," ","y","e","t"," ","u","p","d","a","t","e","d">>,
                     expectedDate |-> o.expected_date,
                     showMaterialStatus |-> TRUE, showExpectedDate |-> TRUE,
                     showDispatch |-> TRUE, dispatchInfo |-> info.dispatches,
                     totalDispatched |-> info.totalDispatched,
                     remainingQty |-> remainingQty]
     ELSE IF o.status = <<"c","o","m","p","l","e","t","e","d">>
       THEN base @@ [showMaterialStatus |-> FALSE, showExpectedDate |-> FALSE,
                     showDispatch |-> TRUE, dispatchInfo |-> info.dispatches,
                     totalDispatched |-> info.totalDispatched,
                     remainingQty |-> remainingQty,
                     isFullyDispatched |-> isFullyDispatched(remainingQty)]
     ELSE base @@ [materialStatus |-> material, showMaterialStatus |-> TRUE,
                   showExpectedDate |-> TRUE, expectedDate |-> o.expected_date]

\* the aggregate columns of the statement the prompt gives as its example
\* (sqlAgent.js 529-531): every weightment row of every dispatch of the order is summed
exampleTotals(o) ==
  LET all == concat(o.dispatches)
      total == IF all = << >> THEN 0 ELSE sumQty([k \in 1..Len(all) |-> [closing_qty |-> all[k]]])
  IN [total_dispatched |-> total, remaining_qty |-> o.quantity_kg - total]

DispatchInit ==
  /\ pc = "dispatches"
  /\ order \in Orders
  /\ dispatchIdx = 0
  /\ dispatchInfo = [dispatches |-> << >>, totalDispatched |-> 0]
  /\ dispatchFailed = FALSE
  /\ orderResponse = null
  /\ inFlight = {}
  /\ settled = {}
  /\ QueueIdle
  /\ LaterIdle
  /\ given = null
  /\ argument = null
  /\ outputs = << >>
  /\ userQuestion = << >>
  /\ marketingPersons = null
  /\ path = {}
  /\ barPending = {}
  /\ barTotals = {}
  /\ wordIdx = 1
  /\ customerMatch = null
  /\ sqlQuery = << >>
  /\ dbCalls = {}
  /\ aiRequests = {}
  /\ outcome = null
  /\ caller = "none"
  /\ contextMessage = << >>
  /\ chatRequests = {}
  /\ reply = null

\* getDispatchDetails returns info and getOrderStatus formats the response (164-166, 169-173)
DispatchReturn(info) ==
  /\ dispatchInfo' = info
  /\ orderResponse' = formatOrderResponse(order, info)
  /\ pc' = "order_done"

\* 51-55: the statement for the dispatches of the order has ended
GetDispatches(ok) ==
  /\ pc = "dispatches"
  /\ IF ~ok
       THEN DispatchReturn(dispatchCatch) /\ dispatchFailed' = TRUE /\ UNCHANGED dispatchIdx
       ELSE /\ UNCHANGED dispatchFailed
            /\ IF order.dispatches = << >>
                 THEN DispatchReturn(dispatchInfo) /\ UNCHANGED dispatchIdx
                 ELSE dispatchIdx' = 1 /\ pc' = "weights" /\ UNCHANGED << dispatchInfo, orderResponse >>
  /\ UNCHANGED << userQuestion, marketingPersons, path, barPending, barTotals, wordIdx, customerMatch,
                  sqlQuery, dbCalls, aiRequests, outcome, callerVars, given, argument, outputs, order,
                  asideVars >>

\* 66-104: one turn of the loop, the statements for the weightment and the invoice of
\* the dispatch have ended
NextDispatch(ok) ==
  /\ pc = "weights"
  /\ IF ~ok
       THEN DispatchReturn(dispatchCatch) /\ dispatchFailed' = TRUE /\ UNCHANGED dispatchIdx
       ELSE LET weight == dispatchWeight(order.dispatches[dispatchIdx])
                info == [dispatches |-> Append(dispatchInfo.dispatches, [weight |-> weight]),
                         totalDispatched |-> dispatchInfo.totalDispatched + weight]
            IN /\ UNCHANGED dispatchFailed
               /\ IF dispatchIdx = Len(order.dispatches)
                    THEN DispatchReturn(info) /\ UNCHANGED dispatchIdx
                    ELSE /\ dispatchIdx' = dispatchIdx + 1
                         /\ dispatchInfo' = info
                         /\ UNCHANGED << pc, orderResponse >>
  /\ UNCHANGED << userQuestion, marketingPersons, path, barPending, barTotals, wordIdx, customerMatch,
                  sqlQuery, dbCalls, aiRequests, outcome, callerVars, given, argument, outputs, order,
                  asideVars >>

DispatchNext ==
  \/ \E ok \in BOOLEAN : GetDispatches(ok)
  \/ \E ok \in BOOLEAN : NextDispatch(ok)

DispatchSpec == DispatchInit /\ [][DispatchNext]_vars

(***************************************************************************)
(* Promise.all over the statements of a fast path (sqlAgent.js 190-203,    *)
(* 216, 394-407).  The statements are issued together and end in any       *)
(* order; Promise.all resolves with the array of their results in the      *)
(* order of the promises it was given.                                     *)
(***************************************************************************)
StockSources == << "regular", "rejected", "quarantine" >>
\* the statements a handler awaits together: one per stock table, and per bar flag
jobsOf(q) ==
  IF handlerOf(q) = "bartype"
    THEN {[barFlag |-> f, source |-> StockSources[k]] : f \in barFlags(q), k \in 1..3}
    ELSE {[source |-> StockSources[k]] : k \in 1..3}
\* the call of executeQuery for one of them, where the driver returns the rows or fails
jobCall(q, job, ok) ==
  IF has(job, "barFlag")
    THEN ExecCall("bartype", barSQL[job.source], << job.barFlag >>,
                  IF ok THEN DriverOk(barRows(job.source, job.barFlag)) ELSE driverError)
    ELSE ExecCall("stock", stockSQL[job.source], << <<"%">> \o stripped(q) \o <<"%">> >>,
                  IF ok THEN DriverOk(stockRows(job.source, stripped(q))) ELSE driverError)

\* a variant that fills the array in the order in which the promises settled
elementOfByArrival(done, job) ==
  LET same == {e \in done : has(e.job, "barFlag") = has(job, "barFlag")
                              /\ (has(job, "barFlag") => e.job.barFlag = job.barFlag)}
      position == CHOOSE k \in 1..3 : StockSources[k] = job.source
  IN (CHOOSE e \in same : Cardinality({d \in same : d.nth <= e.nth}) = position).call.result
\* const [regRes, rejRes, quarRes] = await Promise.all([...]): the element at the
\* position of the promise of job
elementOf(done, job) == (CHOOSE e \in done : e.job = job).call.result

\* what the handler returns once Promise.all has resolved with the results in done
mergedResult(q, done) ==
  LET thrown == {e \in done : e.call.result.kind = "throw"}
  IN IF thrown # {} THEN queryCatch((CHOOSE e \in thrown : TRUE).call.result.message)
     ELSE IF handlerOf(q) = "bartype"
       THEN Return(barResult(q,
              {barTotalsOf(f, elementOf(done, [barFlag |-> f, source |-> "regular"]).value,
                              elementOf(done, [barFlag |-> f, source |-> "rejected"]).value,
                              elementOf(done, [barFlag |-> f, source |-> "quarantine"]).value) :
                 f \in barFlags(q)}))
       ELSE Return(stockResultOf(elementOf(done, [source |-> "regular"]).value,
                                 elementOf(done, [source |-> "rejected"]).value,
                                 elementOf(done, [source |-> "quarantine"]).value))

\* the questions of the bar-type and SKU stock fast paths
MergeQuestions ==
  { <<"b","l","a","c","k"," ","b","a","r">>, <<"B","r","i","g","h","t","B","a","r">>, <<"t","o","t","a","l"," ","s","t","o","c","k">>, <<"s","t","o","c","k"," ","E","N">>, <<"E","N","1","A","-","1","0">>,
    <<"a","l","l"," ","o","r","d","e","r","s"," ","i","n"," ","s","t","o","c","k">> }
\* the tables whose statement may fail at the driver
MayFail == {"quarantine"}

\* queryFromNaturalLanguage(q) up to the await of Promise.all: the statements are issued
IssueAll(q) ==
  /\ pc = "idle"
  /\ handlerOf(q) \in {"bartype", "stock"}
  /\ userQuestion' = q
  /\ marketingPersons' = null
  /\ path' = {handlerOf(q)}
  /\ pc' = "all"
  /\ inFlight' = jobsOf(q)
  /\ settled' = {}
  /\ UNCHANGED << barPending, barTotals, wordIdx, customerMatch, sqlQuery, dbCalls, aiRequests,
                  outcome, callerVars, given, argument, outputs, dispatchVars, queueVars, laterVars >>

\* the promise of one statement settles; when it is the last, Promise.all resolves and the
\* handler returns
Settle(job, ok) ==
  /\ pc = "all"
  /\ job \in inFlight
  /\ LET call == jobCall(userQuestion, job, ok)
         done == settled \cup {[job |-> job, call |-> call, nth |-> Cardinality(settled) + 1]}
     IN /\ settled' = done
        /\ inFlight' = inFlight \ {job}
        /\ dbCalls' = dbCalls \cup {call}
        /\ IF inFlight = {job}
             THEN pc' = "done" /\ outcome' = mergedResult(userQuestion, done)
             ELSE UNCHANGED << pc, outcome >>
  /\ UNCHANGED << userQuestion, marketingPersons, path, barPending, barTotals, wordIdx,
                  customerMatch, sqlQuery, aiRequests, callerVars, given, argument, outputs,
                  dispatchVars, queueVars, laterVars >>

MergeNext ==
  \/ \E q \in MergeQuestions : IssueAll(q)
  \/ \E job \in inFlight : \E ok \in (IF job.source \in MayFail THEN BOOLEAN ELSE {TRUE}) :
       Settle(job, ok)

MergeSpec == Init /\ [][MergeNext]_vars

(***************************************************************************)
(* The message queue of the WhatsApp server (unnamed/part_005 65-68,       *)
(* 894-1078) on the JSON queue store (unnamed/part_002).  A message is     *)
(* its queue item; the store keeps the items in the order they were added. *)
(* An execution of processQueue stands at one of its awaits: of            *)
(* getSessionForFeature (929), of sendMessage (966), of delay (1004).      *)
(* Every call of processQueue comes from a timer.                          *)
(***************************************************************************)
MaxMessages == 2
MaxTimers == 2
\* the features of the model: one without rate limit, one with
Features == {"ai_mode", "group_message"}

\* QueueStore.getPendingMessages, getQueueLength, getFirstPending (part_002 56-65, 96-98)
getPendingMessages(q) == SelectSeq(q, LAMBDA item : item.status = "pending")
getQueueLength(q) == Len(getPendingMessages(q))
getFirstPending(q) == IF getPendingMessages(q) = << >> THEN null ELSE Head(getPendingMessages(q))
\* QueueStore.updateMessageStatus (part_002 68-85): nothing when the item is not there
updateMessageStatus(q, id, status) ==
  [k \in 1..Len(q) |-> IF q[k].id = id THEN [q[k] EXCEPT !.status = status] ELSE q[k]]
\* QueueStore.deleteMessage (part_002 88-93)
deleteMessage(q, id) == SelectSeq(q, LAMBDA item : item.id # id)
\* QueueStore.cleanup (part_002 101-116) when every item is older than olderThan
cleanup(q) == SelectSeq(q, LAMBDA item : item.status = "pending")

\* a variant of the test of line 895 that lets every call in
alreadyProcessingNever(flag) == FALSE
\* 895: if (isProcessingQueue) return
alreadyProcessing(flag) == flag

\* the item of message id in the store, and its status there ("gone" when it is not there)
statusIn(q, id) ==
  IF \E k \in 1..Len(q) : q[k].id = id THEN (CHOOSE item \in {q[k] : k \in 1..Len(q)} : item.id = id).status
  ELSE "gone"
\* the record of a message: what was removed from the store and when
noteRemoved(ms, q, id) ==
  IF statusIn(q, id) = "gone" THEN ms ELSE [ms EXCEPT ![id].removedAs = statusIn(q, id)]

nonQueueVars ==
  << pc, userQuestion, marketingPersons, path, barPending, barTotals, wordIdx, customerMatch,
     sqlQuery, dbCalls, aiRequests, outcome, callerVars, given, argument, outputs, dispatchVars,
     mergeVars, laterVars >>

\* queueMessage(phone, message, feature) (1064-1078)
queueMessage(feature) ==
  /\ Len(messages) < MaxMessages
  /\ LET id == Len(messages) + 1
     IN /\ queue' = Append(queue, [id |-> id, feature |-> feature, status |-> "pending"])
        /\ queueResolvers' = queueResolvers \cup {id}
        /\ messages' = Append(messages, [feature |-> feature, promise |-> "pending", settles |-> 0,
                                         handed |-> 0, sent |-> "no", removedAs |-> "none"])
  /\ IF ~isProcessingQueue THEN timers < MaxTimers /\ timers' = timers + 1 ELSE UNCHANGED timers
  /\ UNCHANGED << isProcessingQueue, loops, ready, lastRound, nonQueueVars >>

\* connection.update with connection === 'open' (515-531): a session of the feature is there
ConnectionOpen(feature) ==
  /\ feature \notin ready
  /\ ready' = ready \cup {feature}
  /\ IF ~isProcessingQueue /\ getQueueLength(queue) > 0
       THEN timers < MaxTimers /\ timers' = timers + 1
       ELSE UNCHANGED timers
  /\ UNCHANGED << queue, isProcessingQueue, loops, queueResolvers, messages, lastRound, nonQueueVars >>

\* the sessions of the feature are offline or rate-limited (getSessionForFeature 808-851)
SessionsUnavailable(feature) ==
  /\ feature \in ready
  /\ ready' = ready \ {feature}
  /\ UNCHANGED << queue, isProcessingQueue, loops, timers, queueResolvers, messages, lastRound,
                  nonQueueVars >>

\* the loop from its top (906-921) to its next await, or to its end
iterate(q, loop) ==
  LET job == getFirstPending(q)
  IN IF job = null \/ job.id \in loop.skippedMessages
       THEN [queue |-> q, loop |-> [loop EXCEPT !.at = "end"]]
       ELSE [queue |-> updateMessageStatus(q, job.id, "processing"),
             loop |-> [loop EXCEPT !.at = "session", !.job = job.id]]

\* execution i goes on from the top of the loop with the store q and the messages ms;
\* at the end of the loop it clears the flag and sets the timer of 1045-1061
Continue(i, q, ms, loop) ==
  LET next == iterate(q, loop)
  IN /\ queue' = next.queue
     /\ messages' = ms
     /\ IF next.loop.at = "end"
          THEN /\ isProcessingQueue' = FALSE
               /\ loops' = SubSeq(loops, 1, i - 1) \o SubSeq(loops, i + 1, Len(loops))
               /\ IF getQueueLength(q) > 0
                    THEN timers < MaxTimers /\ timers' = timers + 1
                    ELSE UNCHANGED timers
               /\ lastRound' = [lastRound EXCEPT
                                  !.ended = TRUE,
                                  !.skipped = loop.skippedMessages,
                                  !.untried = {q[k].id : k \in {j \in 1..Len(q) :
                                                 /\ q[j].status = "pending"
                                                 /\ q[j].id \notin loop.skippedMessages
                                                 /\ q[j].feature \in ready}}]
          ELSE /\ loops' = [loops EXCEPT ![i] = next.loop]
               /\ UNCHANGED << isProcessingQueue, timers, lastRound >>

\* a timer set with setTimeout(processQueue, ...) fires: processQueue runs to its first
\* await (894-929)
processQueue ==
  /\ timers > 0
  /\ timers' = timers - 1
  /\ IF alreadyProcessing(isProcessingQueue)
       THEN /\ lastRound' = [lastRound EXCEPT !.refused = TRUE]
            /\ UNCHANGED << queue, isProcessingQueue, loops, messages >>
       ELSE IF getQueueLength(queue) = 0
         THEN UNCHANGED << queue, isProcessingQueue, loops, messages, lastRound >>
         ELSE LET next == iterate(queue, [at |-> "top", job |-> 0, skippedMessages |-> {},
                                          processedAnyMessage |-> FALSE])
              IN /\ isProcessingQueue' = TRUE
                 /\ queue' = next.queue
                 /\ loops' = Append(loops, next.loop)
                 /\ lastRound' = [lastRound EXCEPT !.ended = FALSE, !.skipped = {}, !.untried = {}]
                 /\ UNCHANGED messages
  /\ UNCHANGED << queueResolvers, ready, nonQueueVars >>

\* getSessionForFeature has resolved (929-960): without a session the message goes back to
\* pending and the loop continues; with one, sendMessage is called (966)
SessionResolved(i) ==
  /\ i \in 1..Len(loops)
  /\ loops[i].at = "session"
  /\ LET id == loops[i].job
     IN IF messages[id].feature \notin ready
          THEN /\ Continue(i, updateMessageStatus(queue, id, "pending"), messages,
                           [loops[i] EXCEPT !.skippedMessages = @ \cup {id}])
          ELSE /\ loops' = [loops EXCEPT ![i].at = "send"]
               /\ messages' = [messages EXCEPT ![id].handed = @ + 1]
               /\ UNCHANGED << queue, isProcessingQueue, timers, lastRound >>
  /\ UNCHANGED << queueResolvers, ready, nonQueueVars >>

\* sendMessage has ended (966-1042): with true, with false, or with an error
SendDone(i, success) ==
  /\ i \in 1..Len(loops)
  /\ loops[i].at = "send"
  /\ LET id == loops[i].job
         settle(ms, how) == IF id \in queueResolvers
                              THEN [ms EXCEPT ![id].promise = how, ![id].settles = @ + 1]
                              ELSE ms
     IN /\ queueResolvers' = queueResolvers \ {id}
        /\ IF success
             THEN LET q1 == updateMessageStatus(queue, id, "completed")
                      ms == noteRemoved(settle([messages EXCEPT ![id].sent = "ok"], "resolved"), q1, id)
                      q2 == deleteMessage(q1, id)
                      loop == [loops[i] EXCEPT !.processedAnyMessage = TRUE]
                  IN IF getQueueLength(q2) > 0
                       THEN /\ queue' = q2
                            /\ messages' = ms
                            /\ loops' = [loops EXCEPT ![i] = [loop EXCEPT !.at = "delay"]]
                            /\ UNCHANGED << isProcessingQueue, timers, lastRound >>
                       ELSE Continue(i, q2, ms, loop)
             ELSE LET q1 == updateMessageStatus(queue, id, "failed")
                      ms == noteRemoved(settle([messages EXCEPT ![id].sent = "failed"], "rejected"), q1, id)
                  IN /\ queue' = deleteMessage(q1, id)
                     /\ messages' = ms
                     /\ isProcessingQueue' = FALSE
                     /\ timers < MaxTimers /\ timers' = timers + 1
                     /\ loops' = SubSeq(loops, 1, i - 1) \o SubSeq(loops, i + 1, Len(loops))
                     /\ UNCHANGED lastRound
  /\ UNCHANGED << ready, nonQueueVars >>

\* the delay between two queue checks has passed (1001-1005)
DelayDone(i) ==
  /\ i \in 1..Len(loops)
  /\ loops[i].at = "delay"
  /\ Continue(i, queue, messages, loops[i])
  /\ UNCHANGED << queueResolvers, ready, nonQueueVars >>

\* the hourly QueueStore.cleanup() (1553-1558) or POST /queue-cleanup (1352-1354) runs
\* when the items that are not pending are older than an hour
Cleanup ==
  /\ cleanup(queue) # queue
  /\ queue' = cleanup(queue)
  /\ messages' = [id \in 1..Len(messages) |->
                    IF statusIn(queue, id) \notin {"gone", "pending"}
                      THEN [messages[id] EXCEPT !.removedAs = statusIn(queue, id)]
                      ELSE messages[id]]
  /\ UNCHANGED << isProcessingQueue, loops, timers, queueResolvers, ready, lastRound, nonQueueVars >>

QueueNext ==
  \/ \E feature \in Features : queueMessage(feature)
  \/ \E feature \in Features : ConnectionOpen(feature)
  \/ \E feature \in Features : SessionsUnavailable(feature)
  \/ processQueue
  \/ \E i \in 1..Len(loops) : SessionResolved(i)
  \/ \E i \in 1..Len(loops) : \E success \in BOOLEAN : SendDone(i, success)
  \/ \E i \in 1..Len(loops) : DelayDone(i)
  \/ Cleanup

QueueSpec == Init /\ [][QueueNext]_vars

\* the process stops at any moment and starts again (1588-1596): message_queue.json is
\* kept as it is, the flag, the resolvers, the executions and the timers are gone, the
\* sessions are not yet connected, and a timer is set when a message is pending
Restart ==
  /\ queue' = queue
  /\ isProcessingQueue' = FALSE
  /\ loops' = << >>
  /\ queueResolvers' = {}
  /\ ready' = {}
  /\ timers' = IF getQueueLength(queue) > 0 THEN 1 ELSE 0
  /\ lastRound' = [lastRound EXCEPT !.ended = FALSE, !.skipped = {}, !.untried = {}]
  /\ UNCHANGED << messages, nonQueueVars >>

RestartNext == QueueNext \/ Restart

RestartSpec == Init /\ [][RestartNext]_vars

(***************************************************************************)
(* The rate limiter of the queue processor (unnamed/part_005 70-111,       *)
(* 182-276) under the one execution of processQueue.  Time is Date.now()   *)
(* in milliseconds and advances in steps of half the base interval.        *)
(***************************************************************************)
\* ANTI_BAN (part_005 74-111)
MIN_DELAY_MS == 60000
MAX_DELAY_MS == 180000
MAX_PER_INTERVAL == 1
INTERVAL_MS == 60000
MAX_MESSAGES_PER_HOUR == 50
BREAK_AFTER_MESSAGES == 10
BREAK_DURATION_MIN_MS == 300000
BREAK_DURATION_MAX_MS == 900000
\* 217: now - usage.hourStartTime >= 3600000
HourMs == 3600000

Tick == INTERVAL_MS \div 2
MaxTicks == 14
RateSessions == {"s1", "s2"}
RateFeatures == {"ai_mode", "group_message"}
\* SessionStore.getAllSessionsForFeature: the sessions assigned to a feature, in file order
sessionsFor(feature) == IF feature = "ai_mode" THEN << "s2", "s1" >> ELSE << "s1" >>
\* getRandomDelay(min, max) (113-115) at the steps of the clock
Delays == {MIN_DELAY_MS, MIN_DELAY_MS + Tick, MAX_DELAY_MS}
BreakDurations == {BREAK_DURATION_MIN_MS, BREAK_DURATION_MAX_MS}

\* getCurrentMinute (176-180)
getCurrentMinute(t) == (t \div INTERVAL_MS) * INTERVAL_MS

\* canSend (182-250) at time t: the usage it leaves and its answer; the null of
\* breakEndTime is written 0, falsy like null at line 201
newUsage(t) ==
  [currentMinute |-> getCurrentMinute(t), count |-> 0, nextAllowedTime |-> t, hourlyCount |-> 0,
   hourStartTime |-> t, consecutiveMessages |-> 0, onBreak |-> FALSE, breakEndTime |-> 0]
canSend(usages, s, t) ==
  LET u0 == IF s \in DOMAIN usages THEN usages[s] ELSE newUsage(t)
      onBreakNow == u0.onBreak /\ u0.breakEndTime # 0
      u1 == IF onBreakNow /\ t >= u0.breakEndTime
              THEN [u0 EXCEPT !.onBreak = FALSE, !.breakEndTime = 0, !.consecutiveMessages = 0]
              ELSE u0
      u2 == IF t - u1.hourStartTime >= HourMs
              THEN [u1 EXCEPT !.hourlyCount = 0, !.hourStartTime = t]
              ELSE u1
      u3 == IF u2.currentMinute # getCurrentMinute(t)
              THEN [u2 EXCEPT !.currentMinute = getCurrentMinute(t), !.count = 0]
              ELSE u2
      answer(allowed, u) == [allowed |-> allowed,
                             usages |-> [x \in DOMAIN usages \cup {s} |-> IF x = s THEN u ELSE usages[x]]]
  IN IF onBreakNow /\ t < u0.breakEndTime THEN answer(FALSE, u0)
     ELSE IF u2.hourlyCount >= MAX_MESSAGES_PER_HOUR THEN answer(FALSE, u2)
     ELSE IF t < u3.nextAllowedTime THEN answer(FALSE, u3)
     ELSE IF u3.count >= MAX_PER_INTERVAL THEN answer(FALSE, u3)
     ELSE answer(TRUE, u3)

\* a variant of incrementUsage that leaves nextAllowedTime as it is
incrementUsageCountOnly(usages, s, t, randomDelay, breakDuration) ==
  IF s \notin DOMAIN usages THEN usages
  ELSE [usages EXCEPT ![s] = [@ EXCEPT !.count = @ + 1, !.hourlyCount = @ + 1,
                                       !.consecutiveMessages = @ + 1]]
\* incrementUsage (252-276) at time t with the two random draws
incrementUsage(usages, s, t, randomDelay, breakDuration) ==
  IF s \notin DOMAIN usages THEN usages
  ELSE LET u == [usages[s] EXCEPT !.count = @ + 1, !.hourlyCount = @ + 1,
                                  !.consecutiveMessages = @ + 1]
       IN IF u.consecutiveMessages >= BREAK_AFTER_MESSAGES
            THEN [usages EXCEPT ![s] = [u EXCEPT !.onBreak = TRUE, !.breakEndTime = t + breakDuration]]
            ELSE [usages EXCEPT ![s] = [u EXCEPT !.nextAllowedTime = t + randomDelay]]

\* getSessionForFeature (808-851) from candidate k on: the session found ("" for null) and
\* the usages its canSend calls leave
RECURSIVE sessionFrom(_, _, _, _, _)
sessionFrom(feature, skipRateLimited, usages, t, k) ==
  IF k > Len(sessionsFor(feature)) THEN [session |-> "", usages |-> usages]
  ELSE LET s == sessionsFor(feature)[k]
       IN IF s \notin online THEN sessionFrom(feature, skipRateLimited, usages, t, k + 1)
          ELSE IF skipRateLimited
            THEN LET check == canSend(usages, s, t)
                 IN IF check.allowed THEN [session |-> s, usages |-> check.usages]
                    ELSE sessionFrom(feature, skipRateLimited, check.usages, t, k + 1)
            ELSE [session |-> s, usages |-> usages]
\* a variant that checks the rate limit of every feature
skipRateLimitedAlways(feature) == TRUE
\* 929: const skipRateLimited = (job.feature !== 'ai_mode')
skipRateLimited(feature) == feature # "ai_mode"
getSessionForFeature(feature, usages, t) ==
  sessionFrom(feature, skipRateLimited(feature), usages, t, 1)

notRateVars == << baseVars, flagVars, chatVars, storeVars >>

\* the clock advances
TickPasses ==
  /\ now < MaxTicks * Tick
  /\ now' = now + Tick
  /\ UNCHANGED << sessionUsage, online, rateLoop, sent, notRateVars >>

\* connection.update: a session logs in, or its connection closes (512-540)
SessionOpens(s) ==
  /\ s \notin online
  /\ online' = online \cup {s}
  /\ UNCHANGED << now, sessionUsage, rateLoop, sent, notRateVars >>
SessionCloses(s) ==
  /\ s \in online
  /\ online' = online \ {s}
  /\ UNCHANGED << now, sessionUsage, rateLoop, sent, notRateVars >>

\* processQueue takes a job of the feature (906-963): it finds its session, checks the
\* rate limit once more unless the job is an AI message, and calls sendMessage or skips
TakeJob(feature) ==
  /\ rateLoop.at = "idle"
  /\ LET found == getSessionForFeature(feature, sessionUsage, now)
         check == canSend(found.usages, found.session, now)
     IN IF found.session = ""
          THEN /\ sessionUsage' = found.usages
               /\ rateLoop' = [at |-> "idle", feature |-> "", session |-> ""]
          ELSE IF skipRateLimited(feature)
            THEN /\ sessionUsage' = check.usages
                 /\ rateLoop' = IF check.allowed
                                  THEN [at |-> "send", feature |-> feature, session |-> found.session]
                                  ELSE [at |-> "idle", feature |-> "", session |-> ""]
            ELSE /\ sessionUsage' = found.usages
                 /\ rateLoop' = [at |-> "send", feature |-> feature, session |-> found.session]
  /\ UNCHANGED << now, online, sent, notRateVars >>

\* sendMessage has ended (968-1042); after true the usage of a rate-limited message is
\* counted (981-984)
RateSendDone(success, randomDelay, breakDuration) ==
  /\ rateLoop.at = "send"
  /\ rateLoop' = [at |-> "idle", feature |-> "", session |-> ""]
  /\ IF success /\ rateLoop.feature # "ai_mode"
       THEN /\ sessionUsage' = incrementUsage(sessionUsage, rateLoop.session, now, randomDelay,
                                              breakDuration)
            /\ sent' = [x \in DOMAIN sent \cup {rateLoop.session} |->
                          IF x # rateLoop.session THEN sent[x]
                          ELSE IF x \in DOMAIN sent
                            THEN [n |-> 2, prev |-> sent[x].last, last |-> now]
                            ELSE [n |-> 1, prev |-> 0, last |-> now]]
       ELSE UNCHANGED << sessionUsage, sent >>
  /\ UNCHANGED << now, online, notRateVars >>

RateNext ==
  \/ TickPasses
  \/ \E s \in RateSessions : SessionOpens(s)
  \/ \E s \in RateSessions : SessionCloses(s)
  \/ \E feature \in RateFeatures : TakeJob(feature)
  \/ \E success \in BOOLEAN, randomDelay \in Delays, breakDuration \in BreakDurations :
       RateSendDone(success, randomDelay, breakDuration)

\* the states the model starts to look from, at time 0 of its clock: no session has a usage
\* yet, or s1 has sent nine rate-limited messages a minute apart, the last one just now
\* (the times before the start are negative)
usageAfterNine ==
  [currentMinute |-> 0, count |-> 1, nextAllowedTime |-> MIN_DELAY_MS, hourlyCount |-> 9,
   hourStartTime |-> 0 - 8 * MIN_DELAY_MS, consecutiveMessages |-> 9, onBreak |-> FALSE,
   breakEndTime |-> 0]
RateInit ==
  /\ AgentIdle
  /\ FlagIdle
  /\ ChatIdle
  /\ StoreIdle
  /\ now = 0
  /\ rateLoop = [at |-> "idle", feature |-> "", session |-> ""]
  /\ \/ sessionUsage = << >> /\ online = {} /\ sent = << >>
     \/ /\ sessionUsage = [s \in {"s1"} |-> usageAfterNine]
        /\ online = {"s1"}
        /\ sent = [s \in {"s1"} |-> [n |-> 2, prev |-> 0 - MIN_DELAY_MS, last |-> 0]]

RateSpec == RateInit /\ [][RateNext]_vars

(***************************************************************************)
(* The flag message queue (unnamed/part_003 139-144, 1490-1732): the       *)
(* requests POST /send-flag-message push jobs, processFlagMessageQueue     *)
(* sends them one after the other through the best session of their flag.  *)
(* All jobs of the model carry the same flag; the clock advances in        *)
(* minutes.                                                                *)
(***************************************************************************)
MAX_FLAG_QUEUE_SIZE == 500
MaxFlagJobs == 2
MaxFlagTicks == 3
FlagTick == 60 * 1000
\* getFlagMessageDelay (1491-1495): its least and its greatest value
minDelay == 2 * 60 * 1000
maxDelay == 3 * 60 * 1000
FlagDelays == {minDelay, maxDelay}
\* the sessions in the order of the Map sessions
FlagSessionIds == << "w1", "w2" >>

\* a variant that never finds a session rate-limited
canSessionSendMessageAlways(limits, s, t) == [canSend |-> TRUE, waitTime |-> 0]
\* canSessionSendMessage (1498-1511) at time t
canSessionSendMessage(limits, s, t) ==
  IF s \notin DOMAIN limits THEN [canSend |-> TRUE, waitTime |-> 0]
  ELSE IF t >= limits[s].nextAllowedTime THEN [canSend |-> TRUE, waitTime |-> 0]
  ELSE [canSend |-> FALSE, waitTime |-> limits[s].nextAllowedTime - t]

\* updateSessionRateLimit (1514-1523) at time t with the delay drawn
updateSessionRateLimit(limits, s, t, delay) ==
  [x \in DOMAIN limits \cup {s} |->
     IF x = s THEN [lastMessageTime |-> t, nextAllowedTime |-> t + delay, delayMs |-> delay]
     ELSE limits[x]]

\* getBestSessionForFlag (1526-1579): null, or the first of the eligible sessions after the
\* sort (those that can send first, then by wait time; Array.prototype.sort is stable)
eligibleSessions(sess, limits, t) ==
  LET all == [k \in 1..Len(FlagSessionIds) |->
                [sessionId |-> FlagSessionIds[k]] @@ canSessionSendMessage(limits, FlagSessionIds[k], t)]
  IN SelectSeq(all, LAMBDA e : sess[e.sessionId].loggedIn /\ sess[e.sessionId].enabled)
getBestSessionForFlag(sess, limits, t) ==
  LET e == eligibleSessions(sess, limits, t)
      before(j, k) == \/ e[j].canSend /\ ~e[k].canSend
                      \/ e[j].canSend = e[k].canSend /\ e[j].waitTime < e[k].waitTime
                      \/ e[j].canSend = e[k].canSend /\ e[j].waitTime = e[k].waitTime /\ j < k
  IN IF e = << >> THEN null
     ELSE e[CHOOSE k \in 1..Len(e) : \A j \in 1..Len(e) : j # k => ~before(j, k)]

\* a variant of the rejection of line 1596 that only drops the job
rejectJobForgotten(jobs, j) == jobs
\* job.reject(...) (1596, 1625, 1629) and job.resolve(...) (1617)
rejectJob(jobs, j) == [jobs EXCEPT ![j].promise = "rejected", ![j].settles = @ + 1]
resolveJob(jobs, j) == [jobs EXCEPT ![j].promise = "resolved", ![j].settles = @ + 1]
\* sendMessageSafely(bestSession.sessionData.client, ...) is called (1611): the job notes
\* whether the session is logged in with the flag enabled at this moment
handJob(jobs, j, s, sess) ==
  [jobs EXCEPT ![j].via = s,
               ![j].handed = IF sess[s].loggedIn /\ sess[s].enabled THEN "ok" ELSE "stale"]

\* the loop of processFlagMessageQueue (1588-1631) from its top to its next await or its end
RECURSIVE flagRun(_, _, _, _, _)
flagRun(q, jobs, sess, limits, t) ==
  IF q = << >>
    THEN [queue |-> q, jobs |-> jobs, processing |-> FALSE,
          loop |-> [at |-> "none", job |-> 0, session |-> "", wakeAt |-> 0]]
  ELSE LET bestSession == getBestSessionForFlag(sess, limits, t)
       IN IF bestSession = null
            THEN flagRun(Tail(q), rejectJob(jobs, Head(q)), sess, limits, t)
          ELSE IF ~bestSession.canSend
            THEN [queue |-> q, jobs |-> jobs, processing |-> TRUE,
                  loop |-> [at |-> "wait", job |-> Head(q), session |-> bestSession.sessionId,
                            wakeAt |-> t + bestSession.waitTime]]
            ELSE [queue |-> Tail(q), jobs |-> handJob(jobs, Head(q), bestSession.sessionId, sess),
                  processing |-> TRUE,
                  loop |-> [at |-> "send", job |-> Head(q), session |-> bestSession.sessionId,
                            wakeAt |-> 0]]

notFlagVars == << baseVars, rateVars, chatVars, storeVars >>

\* POST /send-flag-message with n phones (1638-1732): refused without a connected session
\* that has the flag; else the jobs are pushed and processFlagMessageQueue is called
SendFlagMessage(n) ==
  /\ Len(flagJobs) + n <= MaxFlagJobs
  /\ \E s \in DOMAIN flagSessions : flagSessions[s].loggedIn /\ flagSessions[s].enabled
  /\ Len(flagMessageQueue) + n <= MAX_FLAG_QUEUE_SIZE
  /\ LET pushed == [k \in 1..n |-> Len(flagJobs) + k]
         jobs == flagJobs \o [k \in 1..n |-> [promise |-> "pending", settles |-> 0, via |-> "",
                                              handed |-> "no"]]
         q == flagMessageQueue \o pushed
         run == flagRun(q, jobs, flagSessions, sessionRateLimits, flagNow)
     IN IF isFlagQueueProcessing
          THEN /\ flagMessageQueue' = q
               /\ flagJobs' = jobs
               /\ UNCHANGED << isFlagQueueProcessing, flagLoop >>
          ELSE /\ flagMessageQueue' = run.queue
               /\ flagJobs' = run.jobs
               /\ isFlagQueueProcessing' = run.processing
               /\ flagLoop' = run.loop
  /\ UNCHANGED << flagNow, flagSessions, sessionRateLimits, flagSent, notFlagVars >>

\* the timer of line 1603 fires: the job is taken from the queue and handed to the client
\* of the session chosen before the wait (1608-1611)
FlagWakeUp ==
  /\ flagLoop.at = "wait"
  /\ flagNow >= flagLoop.wakeAt
  /\ flagMessageQueue' = Tail(flagMessageQueue)
  /\ flagJobs' = handJob(flagJobs, flagLoop.job, flagLoop.session, flagSessions)
  /\ flagLoop' = [flagLoop EXCEPT !.at = "send", !.wakeAt = 0]
  /\ UNCHANGED << flagNow, flagSessions, isFlagQueueProcessing, sessionRateLimits, flagSent,
                  notFlagVars >>

\* sendMessageSafely has ended (1611-1630), with true or not; the loop goes on
FlagSendDone(success, delay) ==
  /\ flagLoop.at = "send"
  /\ LET s == flagLoop.session
         limits == IF success THEN updateSessionRateLimit(sessionRateLimits, s, flagNow, delay)
                   ELSE sessionRateLimits
         jobs == IF success THEN resolveJob(flagJobs, flagLoop.job)
                 ELSE rejectJob(flagJobs, flagLoop.job)
         run == flagRun(flagMessageQueue, jobs, flagSessions, limits, flagNow)
     IN /\ sessionRateLimits' = limits
        /\ flagSent' = IF ~success THEN flagSent
                       ELSE [x \in DOMAIN flagSent \cup {s} |->
                               IF x # s THEN flagSent[x]
                               ELSE IF x \in DOMAIN flagSent
                                 THEN [n |-> 2, prev |-> flagSent[x].last, last |-> flagNow]
                                 ELSE [n |-> 1, prev |-> 0, last |-> flagNow]]
        /\ flagMessageQueue' = run.queue
        /\ flagJobs' = run.jobs
        /\ isFlagQueueProcessing' = run.processing
        /\ flagLoop' = run.loop
  /\ UNCHANGED << flagNow, flagSessions, notFlagVars >>

\* a session logs in, or loses its login (its client is closed)
FlagLogin(s) ==
  /\ ~flagSessions[s].loggedIn
  /\ flagSessions' = [flagSessions EXCEPT ![s].loggedIn = TRUE]
  /\ UNCHANGED << flagNow, flagMessageQueue, isFlagQueueProcessing, flagLoop, sessionRateLimits,
                  flagJobs, flagSent, notFlagVars >>
FlagLogout(s) ==
  /\ flagSessions[s].loggedIn
  /\ flagSessions' = [flagSessions EXCEPT ![s].loggedIn = FALSE]
  /\ UNCHANGED << flagNow, flagMessageQueue, isFlagQueueProcessing, flagLoop, sessionRateLimits,
                  flagJobs, flagSent, notFlagVars >>
\* the flag of a session is switched in the store (SessionStore.updateAssignments)
SwitchFlag(s) ==
  /\ flagSessions' = [flagSessions EXCEPT ![s].enabled = ~@]
  /\ UNCHANGED << flagNow, flagMessageQueue, isFlagQueueProcessing, flagLoop, sessionRateLimits,
                  flagJobs, flagSent, notFlagVars >>

\* a minute passes; beyond the horizon only while the processor waits for its timer
FlagTickPasses ==
  /\ \/ flagNow < MaxFlagTicks * FlagTick
     \/ flagLoop.at = "wait" /\ flagNow < flagLoop.wakeAt
  /\ flagNow' = flagNow + FlagTick
  /\ UNCHANGED << flagSessions, flagMessageQueue, isFlagQueueProcessing, flagLoop,
                  sessionRateLimits, flagJobs, flagSent, notFlagVars >>

FlagNext ==
  \/ \E n \in 1..2 : SendFlagMessage(n)
  \/ FlagWakeUp
  \/ \E success \in BOOLEAN, delay \in FlagDelays : FlagSendDone(success, delay)
  \/ \E s \in DOMAIN flagSessions : FlagLogin(s)
  \/ \E s \in DOMAIN flagSessions : FlagLogout(s)
  \/ \E s \in DOMAIN flagSessions : SwitchFlag(s)
  \/ FlagTickPasses

FlagSpec == Init /\ [][FlagNext]_vars

\* the timer fires when its time has come, a send ends, and time passes
FairFlagSpec ==
  /\ FlagSpec
  /\ WF_vars(FlagWakeUp)
  /\ WF_vars(\E success \in BOOLEAN, delay \in FlagDelays : FlagSendDone(success, delay))
  /\ WF_vars(FlagTickPasses)

(***************************************************************************)
(* The chat history of the XMPP AI helper (aiHelper.js 57-61, 69-267).     *)
(* A message is its role and the number of the call whose text it carries  *)
(* (for a user message: the question of that call with its context).       *)
(***************************************************************************)
MAX_HISTORY_PER_USER == 10
MaxChatCalls == 3
MaxInFlight == 2
ChatUsers == {"u1", "u2"}

\* chatHistory.get(userJid) after lines 72-74
historyOf(histories, u) == IF u \in DOMAIN histories THEN histories[u] ELSE << >>
setHistory(histories, u, h) ==
  [x \in DOMAIN histories \cup {u} |-> IF x = u THEN h ELSE histories[x]]
\* history.slice(-k)
lastOf(h, k) == IF Len(h) <= k THEN h ELSE SubSeq(h, Len(h) - k + 1, Len(h))
\* 154-156, 179-181: if (history.length > MAX) history.splice(0, history.length - MAX)
trimHistory(h) == IF Len(h) > MAX_HISTORY_PER_USER THEN lastOf(h, MAX_HISTORY_PER_USER) ELSE h

\* 198-208: the messages of recentHistory without those that repeat the role before them
RECURSIVE alternating(_, _)
alternating(msgs, lastRole) ==
  IF msgs = << >> THEN << >>
  ELSE IF Head(msgs).role # lastRole
    THEN << Head(msgs) >> \o alternating(Tail(msgs), Head(msgs).role)
    ELSE alternating(Tail(msgs), lastRole)
\* 215-218: while (messagesForAPI[0].role !== 'user') messagesForAPI.shift()
RECURSIVE fromFirstUser(_)
fromFirstUser(msgs) ==
  IF msgs = << >> \/ Head(msgs).role = "user" THEN msgs ELSE fromFirstUser(Tail(msgs))
\* 184-227: messagesForAPI of a history that ends with the user message just pushed
messagesForAPI(h) ==
  LET recentHistory == lastOf(h, 6)
      a == alternating(recentHistory, "")
      b == IF a = << >> THEN << recentHistory[Len(recentHistory)] >>
           ELSE IF a[1].role # "user"
             THEN IF fromFirstUser(a) = << >> THEN << recentHistory[Len(recentHistory)] >>
                  ELSE fromFirstUser(a)
             ELSE a
  IN IF Len(recentHistory) <= 1 THEN << [role |-> "user", of |-> recentHistory[1].of] >>
     ELSE IF b[Len(b)].role # "user" THEN Append(b, recentHistory[Len(recentHistory)])
     ELSE b

notChatVars == << baseVars, rateVars, flagVars, storeVars >>

\* getAIResponse(userMessage, userJid) up to its first await (69-139): a greeting of a new
\* user is answered at once (80-124), any other message waits for the SQL agent
CallGetAIResponse(u, greeting) ==
  /\ chatCount < MaxChatCalls
  /\ Cardinality(chatCalls) < MaxInFlight
  /\ chatCount' = chatCount + 1
  /\ IF historyOf(chatHistory, u) = << >> /\ greeting
       THEN /\ chatHistory' = setHistory(chatHistory, u,
                                 << [role |-> "user", of |-> chatCount + 1],
                                    [role |-> "assistant", of |-> chatCount + 1] >>)
            /\ UNCHANGED chatCalls
       ELSE /\ chatHistory' = setHistory(chatHistory, u, historyOf(chatHistory, u))
            /\ chatCalls' = chatCalls \cup {[id |-> chatCount + 1, user |-> u, at |-> "sql"]}
  /\ UNCHANGED << chatSent, notChatVars >>

\* SQLAgent.queryFromNaturalLanguage has returned (139-182): with a direct reply the two
\* messages are pushed and the call returns; else the user message is pushed and the list
\* for the backend is built and sent (172-238)
SqlReturned(call, direct) ==
  /\ call \in chatCalls
  /\ call.at = "sql"
  /\ LET h == historyOf(chatHistory, call.user)
         pushed == trimHistory(Append(h, [role |-> "user", of |-> call.id]))
     IN IF direct
          THEN /\ chatHistory' = setHistory(chatHistory, call.user,
                                   trimHistory(h \o << [role |-> "user", of |-> call.id],
                                                       [role |-> "assistant", of |-> call.id] >>))
               /\ chatCalls' = chatCalls \ {call}
               /\ UNCHANGED chatSent
          ELSE /\ chatHistory' = setHistory(chatHistory, call.user, pushed)
               /\ chatCalls' = (chatCalls \ {call}) \cup {[call EXCEPT !.at = "fetch"]}
               /\ chatSent' = [x \in DOMAIN chatSent \cup {call.id} |->
                                 IF x = call.id
                                   THEN messagesForAPI(pushed)[Len(messagesForAPI(pushed))]
                                   ELSE chatSent[x]]
  /\ UNCHANGED << chatCount, notChatVars >>

\* the backend has answered (229-259), or the request failed (240-244, 261-264)
FetchReturned(call, ok) ==
  /\ call \in chatCalls
  /\ call.at = "fetch"
  /\ chatCalls' = chatCalls \ {call}
  /\ chatHistory' = IF ok
                      THEN setHistory(chatHistory, call.user,
                             Append(historyOf(chatHistory, call.user),
                                    [role |-> "assistant", of |-> call.id]))
                      ELSE chatHistory
  /\ UNCHANGED << chatCount, chatSent, notChatVars >>

ChatNext ==
  \/ \E u \in ChatUsers, greeting \in BOOLEAN : CallGetAIResponse(u, greeting)
  \/ \E call \in chatCalls, direct \in BOOLEAN : SqlReturned(call, direct)
  \/ \E call \in chatCalls, ok \in BOOLEAN : FetchReturned(call, ok)

\* the history of a user after a greeting and three directly answered questions
historyAfterFour ==
  [i \in 1..8 |-> [role |-> IF i % 2 = 1 THEN "user" ELSE "assistant",
                   of |-> ((i + 1) \div 2) - 4]]

\* the helper with no history at all, or with a user who has talked to it before
ChatInit ==
  /\ AgentIdle
  /\ RateIdle
  /\ FlagIdle
  /\ StoreIdle
  /\ chatCalls = {}
  /\ chatCount = 0
  /\ chatSent = << >>
  /\ \/ chatHistory = << >>
     \/ chatHistory = [u \in {"u1"} |-> historyAfterFour]

ChatSpec == ChatInit /\ [][ChatNext]_vars

(***************************************************************************)
(* The session store of the WhatsApp service (wpp/config/sessionStore.js). *)
(* A session is a record; its eight feature flags are the function flags.  *)
(* A value handed in by a caller is written as its JavaScript literal.     *)
(***************************************************************************)
MaxStoreCalls == 3
FeatureFlags ==
  {"ot_message_enabled", "checkin_checkout_enabled", "group_message_enabled",
   "pc_automation_enabled", "delegation_enabled", "helpticket_enabled",
   "ai_mode_enabled", "ncr_enabled"}
StoreSessionIds == {"w1", "w2"}
\* Boolean(value)
toBoolean(v) == v \notin {"false", "0", "null", "''"}
\* the assignments the callers hand in: nothing, one flag, two flags with values that are
\* not booleans, every flag, and a key that is no feature flag
SomeAssignments ==
  {[f \in {} |-> "true"]}
  \cup {[f \in {flag} |-> v] : flag \in FeatureFlags, v \in {"true", "false"}}
  \cup {[f \in {"ot_message_enabled", "ai_mode_enabled"} |->
           IF f = "ot_message_enabled" THEN v[1] ELSE v[2]] :
             v \in {<< "1", "0" >>, << "'false'", "null" >>}}
  \cup {[f \in FeatureFlags |-> v] : v \in {"true", "false"}}
  \cup {[f \in {"status"} |-> "'connected'"]}

\* sessions.findIndex(s => s.session_id === sessionId), 0 for -1
findIndex(sessions, sessionId) ==
  IF \E i \in 1..Len(sessions) : sessions[i].session_id = sessionId
    THEN CHOOSE i \in 1..Len(sessions) :
           /\ sessions[i].session_id = sessionId
           /\ \A j \in 1..(i - 1) : sessions[j].session_id # sessionId
    ELSE 0

\* saveSession (40-77): the sessions after it
saveSession(sessions, sessionId, phoneNumber, status, t) ==
  LET existingIndex == findIndex(sessions, sessionId)
  IN IF existingIndex > 0
       THEN [sessions EXCEPT ![existingIndex] =
               [@ EXCEPT !.phone_number = IF phoneNumber # "" THEN phoneNumber ELSE @,
                         !.status = status,
                         !.updated_at = t,
                         !.connected_at = IF status = "connected" THEN t ELSE @]]
       ELSE Append(sessions,
               [session_id |-> sessionId, phone_number |-> phoneNumber, status |-> status,
                flags |-> [f \in FeatureFlags |-> FALSE],
                created_at |-> t, updated_at |-> t,
                connected_at |-> IF status = "connected" THEN t ELSE 0])

\* a variant of updateAssignments that resets the flags the caller did not name
updateAssignmentsResetting(sessions, sessionId, assignments, t) ==
  LET sessionIndex == findIndex(sessions, sessionId)
  IN IF sessionIndex > 0
       THEN [sessions |-> [sessions EXCEPT ![sessionIndex] =
               [@ EXCEPT !.flags = [f \in FeatureFlags |->
                                      IF f \in DOMAIN assignments
                                        THEN toBoolean(assignments[f]) ELSE FALSE],
                         !.updated_at = t]],
             returned |-> TRUE]
       ELSE [sessions |-> sessions, returned |-> FALSE]

\* updateAssignments (89-155): the sessions it hands to writeSessions, and what it returns
updateAssignments(sessions, sessionId, assignments, t) ==
  LET sessionIndex == findIndex(sessions, sessionId)
  IN IF sessionIndex > 0
       THEN [sessions |-> [sessions EXCEPT ![sessionIndex] =
               [@ EXCEPT !.flags = [f \in FeatureFlags |->
                                      IF f \in DOMAIN assignments
                                        THEN toBoolean(assignments[f]) ELSE @[f]],
                         !.updated_at = t]],
             returned |-> TRUE]
       ELSE [sessions |-> sessions, returned |-> FALSE]

notStoreVars == << baseVars, rateVars, flagVars, chatVars >>

\* SessionStore.saveSession(sessionId, phoneNumber, status), with a file that can be written
SaveSession(sessionId, phoneNumber, status) ==
  /\ storeClock < MaxStoreCalls
  /\ storeClock' = storeClock + 1
  /\ storeSessions' = saveSession(storeSessions, sessionId, phoneNumber, status,
                                  storeClock + 1)
  /\ UNCHANGED << storeReturned, notStoreVars >>

\* SessionStore.updateAssignments(sessionId, assignments)
UpdateAssignments(sessionId, assignments) ==
  /\ storeClock < MaxStoreCalls
  /\ storeClock' = storeClock + 1
  /\ LET r == updateAssignments(storeSessions, sessionId, assignments, storeClock + 1)
     IN /\ storeSessions' = r.sessions
        /\ storeReturned' = IF r.returned THEN "true" ELSE "false"
  /\ UNCHANGED notStoreVars

StoreNext ==
  \/ \E sessionId \in StoreSessionIds, phoneNumber \in {"", "p1"},
        status \in {"connecting", "connected"} :
       SaveSession(sessionId, phoneNumber, status)
  \/ \E sessionId \in StoreSessionIds \cup {"w9"}, assignments \in SomeAssignments :
       UpdateAssignments(sessionId, assignments)

StoreSpec == Init /\ [][StoreNext]_vars

(***************************************************************************)
(* The production listing (sqlAgent.js 316-363) on questions with the      *)
(* status words, against a production table with a row of each status.     *)
(* The database answers the statement with the rows whose status its WHERE *)
(* clause names.                                                           *)
(***************************************************************************)
ProductionStatuses == {<<"p","e","n","d","i","n","g">>, <<"i","n","_","p","r","o","g","r","e","s","s">>, <<"c","o","m","p","l","e","t","e","d">>, 
     <<"c","a","n","c","e","l","l","e","d">>}
Database_production ==
  << [ppno |-> <<"P","P","-","2","6","0","2","-","1","5","9","5">>, status |-> <<"i","n","_","p","r","o","g","r","e","s","s">>],
     [ppno |-> <<"P","P","-","2","6","0","2","-","1","5","9","6">>, status |-> <<"c","o","m","p","l","e","t","e","d">>],
     [ppno |-> <<"P","P","-","2","6","0","2","-","1","5","9","7">>, status |-> <<"p","e","n","d","i","n","g">>],
     [ppno |-> <<"P","P","-","2","6","0","2","-","1","5","9","8">>, status |-> <<"c","a","n","c","e","l","l","e","d">>] >>
\* the rows for WHERE p.status = 's' and for WHERE p.status IN ('s', 't')
selectProduction(sql) ==
  SelectSeq(Database_production, LAMBDA r : includes(sql, <<"'">> \o r.status \o <<"'">>))

ListingNext ==
  \/ pc = "idle" /\ \E q \in StatusQuestions : Request(q, null) /\ UNCHANGED caller
  \/ NoCustomer
  \/ \E driverOk \in BOOLEAN : LookupCustomer(driverOk)
  \/ \E driver \in {driverError, DriverOk(selectProduction(prodSQL(userQuestion, customerMatch)))} :
       ProductionQuery(driver)

ListingSpec == Init /\ [][ListingNext]_vars

(***************************************************************************)
(* The questions of the model by the fast-path tests they satisfy, and the *)
(* statements of the model by what the guard is documented to reject.      *)
(***************************************************************************)
BarQuestions == {q \in Questions : hasBlackBar(q) \/ hasBrightBar(q) \/ isGrandTotal(q)}
PPQuestions == {q \in Questions : ppnoMatch(q) # null}
ProductionQuestions == {q \in Questions : isProductionQuery(q)}
StockQuestions == {q \in Questions : isStockQuery(q)}

\* the statement, trimmed and compared without case, starts with the whole word SELECT
startsWithSelectWord(sql) ==
  LET normalizedSQL == toUpperCase(trim(sql))
  IN startsWith(normalizedSQL, SELECT) /\ WordBoundary(normalizedSQL, Len(SELECT) + 1)
\* the statement holds one of the forbidden keywords as a whole word
containsForbidden(sql) ==
  \E k \in 1..Len(forbiddenKeywords) : TestWholeWord(toUpperCase(trim(sql)), forbiddenKeywords[k])
GuardMustFail == {sql \in KnownStatements : ~startsWithSelectWord(sql) \/ containsForbidden(sql)}

touchesOrderTable(sql) == includes(toLowerCase(sql), 
     <<"d","a","t","a","b","a","s","e","_","o","r","d","e","r","r","e","g","i","s","t","e","r">>)
\* the statements on the order table that lack the restriction of a scope
ScopeMissing ==
  {<<sql, mp>> \in KnownStatements \X Scopes :
     hasFilter(mp) /\ touchesOrderTable(sql) /\ ~includes(sql, scopeClause(mpArray(mp)))}
DescribeStatements == {describeSQL(tables[k]) : k \in 1..Len(tables)}

\* the statements the handlers and synthesis issued through executeQuery
Executed == {c \in dbCalls : c.via = "executeQuery"}
Finished == pc \in {"done", "chat", "replied"}

C2_ScopeEnforced ==
  \A c \in Executed :
     (c.site = "synthesis" /\ c.reached /\ ~c.failed) =>
        <<c.sql, marketingPersons>> \notin ScopeMissing

(***************************************************************************)
(* C3 as stated: every statement sent to the database is sent through      *)
(* executeQuery, and what reaches the pool has passed the guard.           *)
(***************************************************************************)
C3_SingleEntryPoint ==
  \A c \in dbCalls : c.via = "executeQuery" /\ (c.reached => ~checked(c.sql).thrown)

(***************************************************************************)
(* C3 amended: the statements of the fast paths and of synthesis are sent  *)
(* through executeQuery and reach the pool only when the guard passed      *)
(* them; the customer-name lookup and the schema introspection hand their  *)
(* fixed statements to the pool directly, without the guard.               *)
(***************************************************************************)
C3_HandlersGoThroughExecuteQuery ==
  \A c \in dbCalls :
     /\ c.via \in {"executeQuery", "lookupCustomerIds", "getDatabaseSchema"}
     /\ c.via = "executeQuery" => (c.reached <=> ~checked(c.sql).thrown)
     /\ c.via = "lookupCustomerIds" => c.sql = lookupSQL /\ c.reached
     /\ c.via = "getDatabaseSchema" => c.sql \in DescribeStatements /\ c.reached
     /\ c.sql \notin DescribeStatements \cup {lookupSQL} => c.via = "executeQuery"

C3_Witness ==
  \E a \in dbCalls, b \in dbCalls, c \in dbCalls :
     /\ a.via = "getDatabaseSchema"
     /\ b.via = "lookupCustomerIds"
     /\ c.via = "executeQuery" /\ ~c.reached

(***************************************************************************)
(* C4: the tests are tried in the order bar-type totals, PP number,        *)
(* production listing, SKU stock; the first that matches alone answers     *)
(* the question, no other handler issues a statement or calls the          *)
(* backend, and synthesis runs only when none of the four matches.         *)
(***************************************************************************)
C4_FixedOrder ==
  pc # "idle" =>
    LET bar == userQuestion \in BarQuestions
        pp == userQuestion \in PPQuestions
        prod == userQuestion \in ProductionQuestions
        stock == userQuestion \in StockQuestions
    IN /\ Cardinality(path) = 1
       /\ bar => path = {"bartype"}
       /\ ~bar /\ pp => path = {"pp"}
       /\ ~bar /\ ~pp /\ prod => path = {"production"}
       /\ ~bar /\ ~pp /\ ~prod /\ stock => path = {"stock"}
       /\ path = {"synthesis"} <=> ~(bar \/ pp \/ prod \/ stock)
       /\ \A c \in dbCalls : c.site \in path
       /\ aiRequests # {} => path = {"synthesis"}

\* a question that matches the bar-type, PP number and production tests has been answered
C4_Witness ==
  /\ Finished
  /\ userQuestion \in BarQuestions \cap PPQuestions \cap ProductionQuestions
  /\ Executed # {}

(***************************************************************************)
(* C5 as stated: a question with both a PP number and the word production  *)
(* is answered by the PP number lookup.                                    *)
(***************************************************************************)
C5_PPBeatsProduction ==
  (pc # "idle" /\ userQuestion \in PPQuestions \cap ProductionQuestions) => path = {"pp"}

(***************************************************************************)
(* C5 amended: a question with both a PP number (matched as a whole word)  *)
(* and the word production, and without bar-type or total-stock wording,   *)
(* is answered by the PP number lookup and not by the production listing:  *)
(* the only statement it issues is the PP lookup.                          *)
(***************************************************************************)
C5_PPBeatsProductionUnlessBar ==
  (pc # "idle" /\ userQuestion \in (PPQuestions \cap ProductionQuestions) \ BarQuestions) =>
     /\ path = {"pp"}
     /\ \A c \in dbCalls : c.site = "pp" /\ c.sql = ppSQL

C5_Witness ==
  /\ Finished
  /\ userQuestion \in (PPQuestions \cap ProductionQuestions) \ BarQuestions
  /\ \E c \in Executed : c.sql = ppSQL

(***************************************************************************)
(* C6: a question that holds the word production is never answered by the  *)
(* SKU stock lookup, even when it passes the SKU stock test.               *)
(***************************************************************************)
C6_ProductionNeverStock ==
  userQuestion \in ProductionQuestions =>
     /\ "stock" \notin path
     /\ pc # "stock"
     /\ \A c \in dbCalls : c.site # "stock" /\ c.sql \notin {stockSQL[src] : src \in DOMAIN stockSQL}

\* a question with the word production that also passes the SKU stock test has been answered
C6_Witness ==
  /\ Finished
  /\ userQuestion \in (ProductionQuestions \cap StockQuestions) \ (BarQuestions \cup PPQuestions)
  /\ Executed # {}

(***************************************************************************)
(* C7: whenever a statement issued through executeQuery fails at the       *)
(* driver, the caller gets a result with success = false that carries the  *)
(* error, on every path.  The bar-type, PP number and SKU stock handlers   *)
(* drop the failure and return success = true.                             *)
(***************************************************************************)
C7_DriverFailureSurfaced ==
  (Finished /\ \E c \in Executed : c.failed) =>
     /\ outcome.kind = "return"
     /\ outcome.value.success = FALSE
     /\ outcome.value.error = JsString(driverError.message)

(***************************************************************************)
(* C8: queryFromNaturalLanguage never throws: whatever the question, the   *)
(* scope and the failures of the schema fetch, the backend, the guard and  *)
(* the driver, it returns a result with a success flag, a row list and a   *)
(* count.                                                                  *)
(***************************************************************************)
C8_NeverThrows ==
  /\ Finished <=> outcome # null
  /\ Finished =>
       /\ outcome.kind = "return"
       /\ outcome.value.success \in BOOLEAN
       /\ DOMAIN outcome.value.data = 1..Len(outcome.value.data)
       /\ outcome.value.count \in Nat
       /\ ~outcome.value.success => outcome.value.error.t = "string"

\* a request has ended after its generated statement was refused by the guard
C8_Witness ==
  /\ Finished
  /\ \E c \in Executed : c.site = "synthesis" /\ ~c.reached
  /\ ~outcome.value.success

(***************************************************************************)
(* C9: executeQuery never throws: when the guard refuses the statement or  *)
(* the driver fails it returns success = false, rows = [], count = 0 and   *)
(* the message of the error.                                               *)
(***************************************************************************)
C9_ExecuteQueryNeverThrows ==
  \A c \in Executed :
     /\ c.result.kind = "return"
     /\ ~c.reached =>
          c.result.value = [success |-> FALSE, error |-> JsString(checked(c.sql).message),
                            rows |-> << >>, count |-> 0]
     /\ c.failed =>
          c.result.value = [success |-> FALSE, error |-> JsString(driverError.message),
                            rows |-> << >>, count |-> 0]

\* the statement of the production listing failed at the driver
C9_Witness ==
  \E c \in Executed : c.failed /\ c.site = "production" /\ ~c.result.value.success

(***************************************************************************)
(* C10: when the schema fetch fails, no request is sent to the generation  *)
(* backend, no synthesized statement is executed, and the request ends     *)
(* with a failure result.                                                  *)
(***************************************************************************)
C10_NoSynthesisWithoutSchema ==
  (\E c \in dbCalls : c.via = "getDatabaseSchema" /\ c.failed) =>
     /\ aiRequests = {}
     /\ Executed = {}
     /\ sqlQuery = << >>
     /\ Finished
     /\ outcome.kind = "return" /\ outcome.value.success = FALSE

C10_Witness ==
  /\ Finished
  /\ \E c \in dbCalls : c.via = "getDatabaseSchema" /\ c.failed
  /\ outcome.value.error = JsString(schemaMissing.message)

(***************************************************************************)
(* C11: when the agent returns a failure result the end user receives the  *)
(* "Database error: ..." sentence, and when it returns an empty result the *)
(* "No data found" sentence; a failed query is never answered as if no     *)
(* query had been attempted.                                               *)
(***************************************************************************)
C11_FailureReported ==
  (pc = "replied" /\ outcome.kind = "return") =>
     /\ ~outcome.value.success =>
          /\ reply = JsString(databaseError(outcome.value))
          /\ userQuestion \notin chatRequests
     /\ (outcome.value.success /\ outcome.value.count = 0 /\ ~has(outcome.value, "_directReply")) =>
          reply = JsString(noDataFound)

(***************************************************************************)
(* C12: a result that carries a direct-reply text (the bar totals summary, *)
(* the "Production plan ... not found" message) is answered with that text *)
(* and without a request to the generation backend.                        *)
(***************************************************************************)
C12_DirectReplyDelivered ==
  (pc \in {"chat", "replied"} /\ outcome.kind = "return" /\ has(outcome.value, "_directReply")) =>
     /\ chatRequests = {}
     /\ pc = "replied"
     /\ contextMessage # noDataContext

(***************************************************************************)
(* C13: when the output of the formatter holds the [DIRECT_REPLY: ...]     *)
(* sentinel, the caller returns the enclosed text with the sentinel        *)
(* stripped and makes no call to the generation backend, in the XMPP       *)
(* caller and in both WhatsApp callers.                                    *)
(***************************************************************************)
C13_SentinelStripped ==
  (pc \in {"chat", "replied"} /\ includes(contextMessage, 
     <<"[","D","I","R","E","C","T","_","R","E","P","L","Y",":">>)) =>
     /\ chatRequests = {}
     /\ pc = "replied"
     /\ reply = JsString(trim(directMatch(contextMessage).v))
     /\ ~includes(reply.v, <<"[","D","I","R","E","C","T","_","R","E","P","L","Y",":">>)

(***************************************************************************)
(* The formatter's reports, as a reader of its output tells them apart.    *)
(***************************************************************************)
formatterReturned == outputs # << >>
statusLine(label) == <<" "," "," ","S","t","a","t","u","s"," "," "," "," "," "," ",":"," ">> \o label \o << "\n" >>
showsNotApproved(out) == includes(out, statusLine(
     <<"P","r","o","d","u","c","t","i","o","n"," ","N","o","t"," ","A","p","p","r","o","v","e","d">>))
showsInProgress(out) == includes(out, statusLine(<<"I","n"," ","P","r","o","g","r","e","s","s">>))
isStockReport(out) ==
  startsWith(out, 
     <<"\n","\n","[","D","I","R","E","C","T","_","R","E","P","L","Y",":","\n","S","t","o","c","k",
       " ","f","o","r",":"," ">>) \/ startsWith(out, 
     <<"\n","\n","[","D","I","R","E","C","T","_","R","E","P","L","Y",":","\n","S","t","o","c","k",
       " ","S","u","m","m","a","r","y",":">>)
isProductionReport(out) ==
  startsWith(out, 
     <<"\n","\n","[","D","I","R","E","C","T","_","R","E","P","L","Y",":","\n","F","o","u","n","d",
       " ">>) /\ includes(out, 
     <<" ","p","r","o","d","u","c","t","i","o","n"," ","r","e","c","o","r","d","(","s",")",":",
       "\n">>)
isOrderReport(out) ==
  startsWith(out, 
     <<"\n","\n","[","D","I","R","E","C","T","_","R","E","P","L","Y",":","\n","F","o","u","n","d",
       " ">>) /\ includes(out, 
     <<" ","o","r","d","e","r","(","s",")",":","\n">>)
isSkuReport(out) == startsWith(out, 
     <<"\n","\n","[","D","I","R","E","C","T","_","R","E","P","L","Y",":","\n","S","K","U"," ","L",
       "i","s","t"," ","(">>)
isSingleRecordContext(out) == startsWith(out, 
     <<"\n","\n","[","S","Y","S","T","E","M",":"," ","F","o","u","n","d"," ","1"," ","r","e","c",
       "o","r","d",".","\n">>)
isRecordsContext(out) ==
  startsWith(out, <<"\n","\n","[","S","Y","S","T","E","M",":"," ","F","o","u","n","d"," ">>) /\ includes(out, 
     <<" ","r","e","c","o","r","d","(","s",")",".","\n","D","A","T","A",":","\n">>)
\* a production result whose rows all have the given status
productionOf(result, statuses) ==
  /\ result.success /\ result.count > 0
  /\ has(result, "_isProductionQuery")
  /\ \A i \in 1..Len(result.data) : result.data[i].status \in statuses
fromPPLookup(result) == has(result, "_ppLookup") /\ result._ppLookup
\* the question the result answers contains the word, in any case
questionContains(result, word) ==
  has(result, "_statusContext") /\ includes(toLowerCase(result._statusContext), word)

(***************************************************************************)
(* C14: a production row with status in_progress is shown as "Production   *)
(* Not Approved" when the question contains neither "completed" nor        *)
(* "cancel" and the result is not a PP lookup; in a result flagged         *)
(* _ppLookup the same row is shown as "In Progress".                       *)
(***************************************************************************)
C14_InProgressLabel ==
  (formatterReturned /\ productionOf(given, {<<"i","n","_","p","r","o","g","r","e","s","s">>})) =>
     /\ (~fromPPLookup(given) /\ ~questionContains(given, <<"c","o","m","p","l","e","t","e","d">>)
           /\ ~questionContains(given, <<"c","a","n","c","e","l">>)) =>
          showsNotApproved(outputs[1]) /\ ~showsInProgress(outputs[1])
     /\ fromPPLookup(given) =>
          showsInProgress(outputs[1]) /\ ~showsNotApproved(outputs[1])

\* both cases have been formatted: the rows of a listing and of a PP lookup are in progress
C14_Witness ==
  /\ formatterReturned
  /\ productionOf(given, {<<"i","n","_","p","r","o","g","r","e","s","s">>})
  /\ fromPPLookup(given)
  /\ showsInProgress(outputs[1])

C18_BranchOrder ==
  formatterReturned =>
    IF ~given.success THEN startsWith(outputs[1], 
     <<"D","a","t","a","b","a","s","e"," ","e","r","r","o","r",":"," ">>)
    ELSE IF given.count = 0 THEN outputs[1] = noDataFound
    ELSE IF isStockResult(given) THEN isStockReport(outputs[1])
    ELSE IF isProductionResult(given) THEN isProductionReport(outputs[1])
    ELSE IF given.count = 1 THEN isSingleRecordContext(outputs[1])
    ELSE IF isOrderList(given) THEN isOrderReport(outputs[1])
    ELSE IF isSkuList(given) THEN isSkuReport(outputs[1])
    ELSE isRecordsContext(outputs[1]) /\ ~isSingleRecordContext(outputs[1])

\* a one-row production result that is not flagged has been formatted
C18_Witness ==
  /\ formatterReturned
  /\ given.success
  /\ given.count = 1
  /\ ~has(given, "_isProductionQuery")
  /\ isProductionReport(outputs[1])

flagSum(source, barFlag) ==
  sumQty(SelectSeq(stockTables[source], LAMBDA r : r.is_blackbar = barFlag))
\* the statement of the request on that table for that flag returned its rows
barFetched(source, barFlag) ==
  \E c \in dbCalls : c.sql = barSQL[source] /\ c.params = << barFlag >> /\ ~c.failed
\* the three sums and the total a section of the reply shows for a bar flag
sectionAddsUp(section, barFlag) ==
  /\ barFetched("regular", barFlag) => section.reg = flagSum("regular", barFlag)
  /\ barFetched("rejected", barFlag) => section.rej = flagSum("rejected", barFlag)
  /\ barFetched("quarantine", barFlag) => section.quar = flagSum("quarantine", barFlag)
  /\ section.total = section.reg + section.rej + section.quar
barReplied == Finished /\ outcome.kind = "return" /\ has(outcome.value, "_directReply") /\ path = {"bartype"}

C20_BarTotalsAddUp ==
  barReplied =>
    LET out == outcome.value._directReply
    IN IF has(out, "grandTotal")
         THEN /\ sectionAddsUp(out.black, 1)
              /\ sectionAddsUp(out.bright, 0)
              /\ out.grandTotal = out.black.total + out.bright.total
         ELSE sectionAddsUp(out.bar, IF out.title = 
     <<"B","l","a","c","k"," ","B","a","r"," ","S","t","o","c","k"," ","S","u","m","m","a","r","y",
       ":">> THEN 1 ELSE 0)

\* a reply for both bar types whose six statements all returned their rows
C20_Witness ==
  /\ barReplied
  /\ has(outcome.value._directReply, "grandTotal")
  /\ \A c \in dbCalls : ~c.failed
  /\ outcome.value._directReply.grandTotal = 14

(***************************************************************************)
(* C16: for every order, whatever the number of its dispatches and of      *)
(* their weightment rows, the total dispatched is the sum of all the       *)
(* weightment weights of its dispatches and the remaining quantity is      *)
(* quantity_kg less that sum, and the order-status-by-number path reports  *)
(* the two values the order-list and single-record paths report.           *)
(***************************************************************************)
C16_PathsAgree ==
  (pc = "order_done" /\ ~dispatchFailed /\ order.status \in {
     <<"i","n","_","p","r","o","g","r","e","s","s">>, 
     <<"c","o","m","p","l","e","t","e","d">>}) =>
     /\ orderResponse.totalDispatched = exampleTotals(order).total_dispatched
     /\ orderResponse.remainingQty = exampleTotals(order).remaining_qty

(***************************************************************************)
(* C21 as stated: a question that holds a PP number for which the          *)
(* production table has no row is answered with count 0 and the direct     *)
(* reply "Production plan <PP> not found." and, on the next line, "Please  *)
(* check the PP number and try again.", <PP> being the number in capitals  *)
(* with "-" for its separators; the production listing and the generation  *)
(* backend are not used.                                                   *)
(***************************************************************************)
\* the numbers a question of the model can hold, as written and as the reply names them
PPNumbers ==
  { [written |-> <<"p","p","-","2","6","0","2","-","1","5","9","5">>, named |-> <<"P","P","-","2","6","0","2","-","1","5","9","5">>],
    [written |-> <<"p","p"," ","2","6","0","2"," ","9","9","9","9">>, named |-> <<"P","P","-","2","6","0","2","-","9","9","9","9">>] }
notFoundTexts(q) ==
  { <<"P","r","o","d","u","c","t","i","o","n"," ","p","l","a","n"," ">> \o n.named \o
      
     <<" ","n","o","t"," ","f","o","u","n","d",".","\n","P","l","e","a","s","e"," ","c","h","e","c",
       "k"," ","t","h","e"," ","P","P"," ","n","u","m","b","e","r"," ","a","n","d"," ","t","r","y",
       " ","a","g","a","i","n",".">> :
        n \in {m \in PPNumbers : includes(toLowerCase(q), m.written)} }
\* no PP lookup of the request has returned a row
noPlanFound == \A c \in dbCalls : c.site = "pp" => (~c.failed => c.result.value.count = 0)
answeredNotFound ==
  /\ outcome.kind = "return"
  /\ outcome.value.success = TRUE
  /\ outcome.value.count = 0
  /\ outcome.value.data = << >>
  /\ has(outcome.value, "_directReply")
  /\ outcome.value._directReply \in notFoundTexts(userQuestion)
  /\ \A c \in dbCalls : c.site = "pp"
  /\ aiRequests = {}

C21_PlanNotFound ==
  (outcome # null /\ userQuestion \in PPQuestions /\ noPlanFound) => answeredNotFound

(***************************************************************************)
(* C21 amended: the same, for a question that holds a PP number and has    *)
(* neither bar-type nor total-stock wording (such wording is tested first  *)
(* and is answered with stock totals).                                     *)
(***************************************************************************)
C21_PlanNotFoundUnlessBar ==
  (outcome # null /\ userQuestion \in PPQuestions \ BarQuestions /\ noPlanFound) => answeredNotFound

\* a number written in small letters with spaces was looked up, matched no row and was
\* named in the reply in capitals with dashes
C21_Witness ==
  /\ outcome # null
  /\ userQuestion \in PPQuestions \ BarQuestions
  /\ \E c \in Executed : c.site = "pp" /\ ~c.failed /\ c.result.value.count = 0
                           /\ c.params[1] = <<"P","P","-","2","6","0","2","-","9","9","9","9">>
  /\ outcome.value._directReply =
       
     <<"P","r","o","d","u","c","t","i","o","n"," ","p","l","a","n"," ","P","P","-","2","6","0","2",
       "-","9","9","9","9"," ","n","o","t"," ","f","o","u","n","d",".","\n","P","l","e","a","s","e",
       " ","c","h","e","c","k"," ","t","h","e"," ","P","P"," ","n","u","m","b","e","r"," ","a","n",
       "d"," ","t","r","y"," ","a","g","a","i","n",".">>

(***************************************************************************)
(* C22: a request without scope (the argument is absent or null, or the    *)
(* user has no assignment) is processed as any other and its prompt holds  *)
(* no access-scope instruction: the request ends with a result, a failure  *)
(* result has a cause that is not the scope (a failed or rejected          *)
(* statement, the generation backend), and the statements of the handlers  *)
(* are issued with no marketing-person parameter.                          *)
(***************************************************************************)
backendFailed ==
  \E resp \in BackendResponses :
     response(resp).kind = "throw" /\ outcome = queryCatch(response(resp).message)
statementFailed == \E c \in dbCalls : c.failed \/ ~c.reached
C22_UnrestrictedWithoutScope ==
  (pc # "idle" /\ marketingPersons = null) =>
     /\ mpArray(marketingPersons) = << >> /\ ~hasFilter(marketingPersons)
     /\ \A r \in aiRequests : r.marketingPersonFilter = << >>
     /\ outcome # null =>
          /\ outcome.kind = "return"
          /\ ~outcome.value.success => (backendFailed \/ statementFailed)

\* a user without assignment asked through the XMPP bot and got the rows of a statement
\* on the order table that holds no restriction to a marketing person
C22_Witness ==
  /\ caller = "aiHelper"
  /\ marketingPersons = null
  /\ aiRequests # {}
  /\ outcome # null /\ outcome.value.success /\ outcome.value.count > 0
  /\ touchesOrderTable(sqlQuery)
  /\ ~includes(sqlQuery, <<"m","a","r","k","e","t","i","n","g","_","p","e","r","s","o","n">>)

(***************************************************************************)
(* C24: findCustomerInQuestion returns the keyword and the matches of the  *)
(* first token, in the order of the question, that has at least 2          *)
(* characters once its non-alphanumerics are stripped, is not a stop word  *)
(* and matches a customer name; every eligible token before it was looked  *)
(* up and matched none; it returns null when no token matches; a lookup    *)
(* that fails counts as no match.                                          *)
(***************************************************************************)
\* findCustomerInQuestion has returned
customerResolved ==
  \/ pc \in {"production_query", "fetch", "execute"}
  \/ Finished /\ (path = {"production"} \/ aiRequests # {})
eligible(word) ==
  LET alnum == SelectSeq(word, LAMBDA ch : IsAlnum(ch))
  IN Len(alnum) >= 2 /\ toLowerCase(alnum) \notin skipWords
lookups == {c \in dbCalls : c.via = "lookupCustomerIds"}
\* the token was looked up and the lookup gave no customer
lookedUpNone(word) ==
  \E c \in lookups : c.params = << <<"%">> \o clean(word) \o <<"%">> >> /\ c.result.value = << >>
C24_FirstMatchingToken ==
  customerResolved =>
    LET words == questionWords(userQuestion)
    IN /\ \A c \in lookups :
            /\ \E k \in 1..Len(words) :
                  eligible(words[k]) /\ c.params = << <<"%">> \o clean(words[k]) \o <<"%">> >>
            /\ c.failed => c.result.value = << >>
       /\ IF customerMatch = null
            THEN \A k \in 1..Len(words) : eligible(words[k]) => lookedUpNone(words[k])
            ELSE \E k \in 1..Len(words) :
                   /\ eligible(words[k])
                   /\ customerMatch.keyword = clean(words[k])
                   /\ customerMatch.customers # << >>
                   /\ customerMatch.customers = customerRows(clean(words[k]))
                   /\ \A j \in 1..(k - 1) : eligible(words[j]) => lookedUpNone(words[j])
                   /\ \A c \in lookups :
                        \E j \in 1..k : c.params = << <<"%">> \o clean(words[j]) \o <<"%">> >>

\* the second eligible token gave the customers after the first matched none
C24_Witness ==
  /\ customerResolved
  /\ customerMatch # null
  /\ customerMatch.keyword = <<"S","S","P","L">>
  /\ Len(customerMatch.customers) = 2
  /\ \E c \in lookups : c.params = << <<"%","p","r","o","d","u","c","t","i","o","n","%">> >> /\ ~c.failed /\ c.result.value = << >>

(***************************************************************************)
(* C23: the response of the order status by number shows its fields by     *)
(* status.  pending: material status, expected date and dispatch are       *)
(* hidden.  in_progress: material status, expected date and dispatch are   *)
(* shown, with the total dispatched and the remaining quantity.            *)
(* completed: dispatch is shown with a fully-dispatched flag that is true  *)
(* exactly when the remaining quantity is <= 0; material status and        *)
(* expected date are hidden.                                               *)
(***************************************************************************)
shown(field) == field \in DOMAIN orderResponse
materialReady == <<"M","a","t","e","r","i","a","l"," ","r","e","a","d","y">>
notYetUpdated == <<"N","o","t"," ","y","e","t"," ","u","p","d","a","t","e","d">>
C23_FieldsByStatus ==
  pc = "order_done" =>
    CASE order.status = <<"p","e","n","d","i","n","g">> ->
           /\ ~orderResponse.showMaterialStatus /\ ~orderResponse.showExpectedDate
           /\ ~orderResponse.showDispatch
           /\ \A f \in {"materialStatus", "expectedDate", "dispatchInfo", "totalDispatched",
                        "remainingQty", "isFullyDispatched"} : ~shown(f)
      [] order.status = <<"i","n","_","p","r","o","g","r","e","s","s">> ->
           /\ orderResponse.showMaterialStatus /\ orderResponse.showExpectedDate
           /\ orderResponse.showDispatch
           /\ orderResponse.materialStatus =
                IF has(order, "material_status") THEN materialReady ELSE notYetUpdated
           /\ orderResponse.expectedDate = order.expected_date
           /\ orderResponse.dispatchInfo = dispatchInfo.dispatches
           /\ orderResponse.totalDispatched = dispatchInfo.totalDispatched
           /\ orderResponse.remainingQty = order.quantity_kg - dispatchInfo.totalDispatched
           /\ ~shown("isFullyDispatched")
      [] order.status = <<"c","o","m","p","l","e","t","e","d">> ->
           /\ ~orderResponse.showMaterialStatus /\ ~orderResponse.showExpectedDate
           /\ orderResponse.showDispatch
           /\ ~shown("materialStatus") /\ ~shown("expectedDate")
           /\ orderResponse.dispatchInfo = dispatchInfo.dispatches
           /\ orderResponse.totalDispatched = dispatchInfo.totalDispatched
           /\ orderResponse.remainingQty = order.quantity_kg - dispatchInfo.totalDispatched
           /\ orderResponse.isFullyDispatched <=> orderResponse.remainingQty <= 0

\* a completed order of 200 kg with two dispatches of 200 kg: more was dispatched than ordered
C23_Witness ==
  /\ pc = "order_done"
  /\ order.status = <<"c","o","m","p","l","e","t","e","d">>
  /\ orderResponse.remainingQty < 0
  /\ orderResponse.isFullyDispatched
  /\ Len(orderResponse.dispatchInfo) = 2

(***************************************************************************)
(* C25 as stated: in the production listing the status filter follows the  *)
(* keywords of the question: a question containing "completed" gets the    *)
(* completed rows only, one containing "cancel" or "cancelled" gets the    *)
(* cancelled rows only, and any other question gets exactly the rows with  *)
(* status pending or in_progress.                                          *)
(***************************************************************************)
listed == pc = "done" /\ path = {"production"} /\ \A c \in Executed : ~c.failed
statusesListed == {outcome.value.data[k].status : k \in 1..Len(outcome.value.data)}
\* every row of the table with one of the statuses is in the result, and no other row
listsExactly(statuses) ==
  /\ \A k \in 1..Len(outcome.value.data) : outcome.value.data[k].status \in statuses
  /\ \A k \in 1..Len(Database_production) :
        Database_production[k].status \in statuses =>
           \E j \in 1..Len(outcome.value.data) : outcome.value.data[j].ppno = Database_production[k].ppno
C25_StatusByKeyword ==
  listed =>
    LET q == toLowerCase(userQuestion)
    IN listsExactly(IF includes(q, <<"c","o","m","p","l","e","t","e","d">>) THEN {<<"c","o","m","p","l","e","t","e","d">>}
                    ELSE IF includes(q, <<"c","a","n","c","e","l">>) THEN {<<"c","a","n","c","e","l","l","e","d">>}
                    ELSE {<<"p","e","n","d","i","n","g">>, <<"i","n","_","p","r","o","g","r","e","s","s">>})

(***************************************************************************)
(* C25 amended: the keywords are whole words, matched without case, and    *)
(* are tested in this order: "complete" or "completed" gets the completed  *)
(* rows only; otherwise "cancel" or "cancelled" gets the cancelled rows    *)
(* only; otherwise the rows with status pending or in_progress.            *)
(***************************************************************************)
wordsOf(question) ==
  LET ws == splitSpaces(toLowerCase(question)) IN {ws[k] : k \in 1..Len(ws)}
C25_StatusByWholeWord ==
  listed =>
    LET ws == wordsOf(userQuestion)
    IN listsExactly(IF ws \cap {<<"c","o","m","p","l","e","t","e">>, <<"c","o","m","p","l","e","t","e","d">>} # {} THEN {
     <<"c","o","m","p","l","e","t","e","d">>}
                    ELSE IF ws \cap {<<"c","a","n","c","e","l">>, <<"c","a","n","c","e","l","l","e","d">>} # {} THEN {
     <<"c","a","n","c","e","l","l","e","d">>}
                    ELSE {<<"p","e","n","d","i","n","g">>, <<"i","n","_","p","r","o","g","r","e","s","s">>})

\* "production complete" was answered with the completed row
C25_Witness ==
  /\ listed
  /\ userQuestion = <<"p","r","o","d","u","c","t","i","o","n"," ","c","o","m","p","l","e","t","e">>
  /\ statusesListed = {<<"c","o","m","p","l","e","t","e","d">>}

(***************************************************************************)
(* C26: what a fast path makes of its concurrent statements does not       *)
(* depend on the order in which they end.  The SKU stock rows are all the  *)
(* rows of the regular statement, then all of the rejected one, then all   *)
(* of the quarantine one, each row tagged with the table of its own        *)
(* statement; each bar-type sum is the sum of the rows of the statement on *)
(* its own table for its own bar flag.                                     *)
(***************************************************************************)
\* the rows the statement sql with the parameters params returned to the request
rowsReturned(sql, params) ==
  (CHOOSE c \in dbCalls : c.sql = sql /\ c.params = params).result.value.rows
taggedRows(source) ==
  LET rows == rowsReturned(stockSQL[source], << <<"%">> \o stripped(userQuestion) \o <<"%">> >>)
  IN [k \in 1..Len(rows) |-> rows[k] @@ [_stockSource |-> source]]
sumsOfOwnTable(section, barFlag) ==
  /\ section.reg = sumQty(rowsReturned(barSQL.regular, << barFlag >>))
  /\ section.rej = sumQty(rowsReturned(barSQL.rejected, << barFlag >>))
  /\ section.quar = sumQty(rowsReturned(barSQL.quarantine, << barFlag >>))
C26_MergedByTable ==
  (pc = "done" /\ settled # {}) =>
     /\ outcome.kind = "return"
     /\ IF path = {"stock"}
          THEN outcome.value.data =
                 taggedRows("regular") \o taggedRows("rejected") \o taggedRows("quarantine")
          ELSE LET out == outcome.value._directReply
               IN IF has(out, "grandTotal")
                    THEN sumsOfOwnTable(out.black, 1) /\ sumsOfOwnTable(out.bright, 0)
                    ELSE sumsOfOwnTable(out.bar, IF hasBlackBar(userQuestion) THEN 1 ELSE 0)

\* the quarantine statement ended first and the regular one last, and the rows stand in
\* the order regular, rejected, quarantine
C26_Witness ==
  /\ pc = "done"
  /\ path = {"stock"}
  /\ \E e \in settled : e.job.source = "quarantine" /\ e.nth = 1 /\ ~e.call.failed
  /\ \E e \in settled : e.job.source = "regular" /\ e.nth = 3
  /\ Len(outcome.value.data) = 4
  /\ outcome.value.data[1]._stockSource = "regular"
  /\ outcome.value.data[3]._stockSource = "rejected"
  /\ outcome.value.data[4]._stockSource = "quarantine"
  /\ outcome.value.data[4].closing_qty = 4

(***************************************************************************)
(* C27: when the question names no bar type, the grand-total stock path    *)
(* is taken only if one of the words total, grand, all stands next to the  *)
(* word stock; a question that holds such a word and the word stock apart  *)
(* from each other is not answered by the grand-total path.                *)
(***************************************************************************)
\* a total word and the word stock are neighbours among the words of the question
totalNextToStock(question) ==
  LET ws == splitSpaces(toLowerCase(trim(question)))
  IN \E k \in 1..(Len(ws) - 1) :
        \/ ws[k] \in TotalWords /\ ws[k + 1] = <<"s","t","o","c","k">>
        \/ ws[k] = <<"s","t","o","c","k">> /\ ws[k + 1] \in TotalWords
C27_GrandTotalOnlyAdjacent ==
  (pc # "idle" /\ path = {"bartype"}
     /\ ~hasBlackBar(userQuestion) /\ ~hasBrightBar(userQuestion)) =>
        totalNextToStock(userQuestion)


(***************************************************************************)
(* The queue processor.                                                    *)
(***************************************************************************)
\* the round that just ended left a pending message it never tried although a session of
\* its feature is available
leftUntried == lastRound.ended /\ lastRound.untried # {}

\* C28: when the first pending message cannot be sent (no session of its feature is
\* available, or all are rate-limited) processQueue skips it, leaves it pending, and in the
\* same round still tries the later pending messages whose sessions are available: a round
\* never ends with a skipped message and an untried pending message that could be sent.
C28_SkipDoesNotBlock ==
  /\ \A id \in lastRound.skipped : lastRound.ended => statusIn(queue, id) \in {"pending", "processing", "gone"}
  /\ ~leftUntried

\* the parts of C29
sentAtMostOnce == \A id \in 1..Len(messages) : messages[id].handed <= 1
removedAfterOutcome ==
  \A id \in 1..Len(messages) : messages[id].removedAs \in {"none", "completed", "failed"}
settledRight ==
  \A id \in 1..Len(messages) :
    /\ messages[id].settles <= 1
    /\ messages[id].promise = "resolved" => messages[id].sent = "ok"
    /\ messages[id].promise = "rejected" => messages[id].sent = "failed"

\* C29: every message added through queueMessage is handed to sendMessage at most once, is
\* deleted from the queue only after it was sent successfully or marked failed, and its
\* promise is settled at most once, resolved only after a successful send and rejected only
\* after a failed one.
C29_SentOnceSettledOnce == sentAtMostOnce /\ removedAfterOutcome /\ settledRight

\* C30: at most one execution of the processQueue loop is active at any time, whatever the
\* order of the queueMessage calls, the connection-open events and the timers.
C30_OneLoopAtATime == Len(loops) <= 1 /\ (isProcessingQueue <=> Len(loops) = 1)

\* a timer fired while an execution stood at an await and returned at line 895, and an
\* execution stands at the await of sendMessage with another timer set
C30_Witness ==
  /\ lastRound.refused
  /\ Len(loops) = 1
  /\ loops[1].at = "send"
  /\ timers > 0


\* message id is in status 'processing' and no execution of processQueue works on it:
\* getFirstPending passes over it, so nothing but cleanup ever touches it again
abandoned(id) == statusIn(queue, id) = "processing" /\ \A i \in 1..Len(loops) : loops[i].job # id

\* C31: after a restart every message of the persistent queue that was neither completed
\* nor failed is picked up again by processQueue: no message is left in status 'processing'
\* with nothing working on it, where it would stay until cleanup removes it unsent.
C31_PickedUpAfterRestart == \A id \in 1..Len(messages) : ~abandoned(id)


(***************************************************************************)
(* The rate limits of the queued messages.                                 *)
(***************************************************************************)
\* C32: two successful sends of rate-limited (non-AI) queued messages through the same
\* session are at least 60 seconds apart.
C32_SixtySecondsApart ==
  \A s \in DOMAIN sent : sent[s].n = 2 => sent[s].last - sent[s].prev >= 60000

\* s1 took its break after ten messages, sent again when the break had ended, and sent
\* once more exactly 60 seconds later
C32_Witness ==
  /\ "s1" \in DOMAIN sent
  /\ sent["s1"].n = 2
  /\ sent["s1"].last - sent["s1"].prev = 60000
  /\ sessionUsage["s1"].hourlyCount = 12
  /\ sessionUsage["s1"].consecutiveMessages = 2


\* a session assigned to AI messages is connected
aiSessionOnline == \E k \in 1..Len(sessionsFor("ai_mode")) : sessionsFor("ai_mode")[k] \in online

C33_TwoMinutesApart ==
  \A s \in DOMAIN flagSent : flagSent[s].n = 2 => flagSent[s].last - flagSent[s].prev >= 120000

\* a session sent two flag messages exactly 2 minutes apart
C33_Witness ==
  \E s \in DOMAIN flagSent : flagSent[s].n = 2 /\ flagSent[s].last - flagSent[s].prev = 120000

\* C34: a flag message is handed to a session's client only if at that moment the session
\* is logged in with a live client and has the flag enabled, also after the processor
\* waited for the session's rate limit.
C34_LiveSessionAtSend ==
  \A j \in 1..Len(flagJobs) : flagJobs[j].handed # "stale"

\* job j has been accepted; its promise has been settled
accepted(j) == Len(flagJobs) >= j
settledJob(j) == Len(flagJobs) >= j /\ flagJobs[j].promise # "pending"
\* a promise is settled at most once, and the processor stops only on an empty queue
settledOnce ==
  /\ \A j \in 1..Len(flagJobs) :
       /\ flagJobs[j].settles <= 1
       /\ flagJobs[j].settles = 1 <=> flagJobs[j].promise # "pending"
  /\ ~isFlagQueueProcessing => flagMessageQueue = << >> /\ flagLoop.at = "none"

\* C35: every job accepted into the flag message queue has its promise resolved or
\* rejected exactly once and is settled in the end, given that every send ends; a job
\* pushed while the processor runs is not left in the queue when the processor stops.
C35_EveryJobSettledOnce ==
  /\ []settledOnce
  /\ \A j \in 1..MaxFlagJobs : accepted(j) ~> settledJob(j)

\* the second job, pushed while the processor was at work on the first, has been settled
\* and the processor has stopped
C35_Witness ==
  /\ Len(flagJobs) >= 2
  /\ \A j \in 1..Len(flagJobs) : flagJobs[j].promise # "pending"
  /\ flagJobs[2].via # ""
  /\ ~isFlagQueueProcessing


(***************************************************************************)
(* The chat history of the XMPP AI helper.                                 *)
(***************************************************************************)
\* C37: for every user the chat history never holds more than MAX_HISTORY_PER_USER (10)
\* messages, after any sequence of getAIResponse calls.
C37_HistoryBounded ==
  \A u \in DOMAIN chatHistory : Len(chatHistory[u]) <= MAX_HISTORY_PER_USER

\* C38: the last message of the list sent to the generation backend is the user message of
\* the current call, whatever the history of the user was.
C38_LastIsCurrentQuestion ==
  \A id \in DOMAIN chatSent : chatSent[id] = [role |-> "user", of |-> id]


(***************************************************************************)
(* The session store.                                                      *)
(***************************************************************************)
\* what a call of updateAssignments may change: in the session of that id the flags named
\* in assignments and updated_at, and nothing else
onlyNamedFlagsChange(sessionId, assignments) ==
  /\ Len(storeSessions') = Len(storeSessions)
  /\ \A i \in 1..Len(storeSessions) :
       IF storeSessions[i].session_id = sessionId
         THEN /\ \A f \in FeatureFlags \ DOMAIN assignments :
                   storeSessions'[i].flags[f] = storeSessions[i].flags[f]
              /\ [storeSessions'[i] EXCEPT !.flags = storeSessions[i].flags,
                                           !.updated_at = storeSessions[i].updated_at]
                   = storeSessions[i]
         ELSE storeSessions'[i] = storeSessions[i]

\* C39: updateAssignments(sessionId, assignments) changes only the feature flags named in
\* assignments (and updated_at) of that one session; every flag not named, every other
\* field and every other session stays as it was; for an unknown session id nothing is
\* written and false is returned.
C39_OnlyNamedFlagsChange ==
  [][\A sessionId \in StoreSessionIds \cup {"w9"}, assignments \in SomeAssignments :
       UpdateAssignments(sessionId, assignments) =>
         /\ onlyNamedFlagsChange(sessionId, assignments)
         /\ findIndex(storeSessions, sessionId) = 0 =>
              /\ storeSessions' = storeSessions
              /\ storeReturned' = "false"]_vars

\* one flag of the first session has been switched on and its other flags, and the second
\* session, are as saveSession made them
C39_Witness ==
  /\ Len(storeSessions) = 2
  /\ storeReturned = "true"
  /\ storeSessions[1].flags = [f \in FeatureFlags |-> f = "ai_mode_enabled"]
  /\ storeSessions[1].updated_at > storeSessions[1].created_at
  /\ storeSessions[2].flags = [f \in FeatureFlags |-> FALSE]
  /\ storeSessions[2].updated_at = storeSessions[2].created_at

====
